---- MODULE Spec2Model ----
(***************************************************************************)
(* The front-end behaviours of src/js/default.js as a state machine.       *)
(*                                                                         *)
(* The state is the part of the browser the Toggle class reads and writes: *)
(* class lists, the toggled attributes, the location hash, the focused     *)
(* element, the Toggle instances, the window registry of instantiated      *)
(* selectors and the event listeners on the body and on single elements.   *)
(* One action is one event dispatched by the browser (or one constructor   *)
(* call); it runs every listener the event reaches, to completion.         *)
(*                                                                         *)
(* The other modules of the file (Icons, TranslateElement, StaticColumn,   *)
(* Animations) and createSlug of src/config/slm.js have one variable each  *)
(* and a specification of their own; a specification leaves the modules it *)
(* is not about unconstructed.                                             *)
(***************************************************************************)
EXTENDS Integers, Sequences, FiniteSets, TLC

VARIABLES
  cls,       \* element -> set of class names (classList)
  attr,      \* element -> attribute name -> value (the attributes the code writes)
  hash,      \* window.location.hash ("" when the URL has no fragment)
  focus,     \* document.activeElement
  toggles,   \* the Toggle instances constructed so far, in order
  registry,  \* window.TogglesCallback: the selectors recorded as instantiated
  bodyL,     \* listeners added to the body, in order of addition
  elemL,     \* element -> click listeners added to it, in order of addition
  log,       \* what the handlers of the last event (or constructor call) did, in order
  err,       \* TRUE when a handler of the last event threw
  last,      \* the last event: its type, target, inputs and the state before it
  args,      \* the settings objects the Toggle constructors were called with, in order
  icons,     \* the Icons loaders and the containers they appended to the body
  slug,      \* a string and what createSlug made of it
  rot,       \* the text rotator of Animations: terms, index, controller, timers
  col,       \* the element of StaticColumn, its classes and the geometry it reads
  tr         \* the TranslateElement: the root's attributes, the observer's queue

toggleVars ==
  <<cls, attr, hash, focus, toggles, registry, bodyL, elemL, log, err, last, args>>

vars == <<toggleVars, icons, slug, rot, col, tr>>

\* the value of a module's variable on a page that does not construct it
NotConstructed == "not constructed"

\* null / false / a missing attribute
Null == "null"

\* what querySelector does with a string that is no CSS selector
Throw == "SyntaxError"

----------------------------------------------------------------------------
(* Bounds *)

\* constructor calls in one behaviour of SpecCtor
MaxToggles == 2

----------------------------------------------------------------------------
(* Class statics, src/js/default.js:380-415 *)

Toggle_selector == "[data-js*=toggle]"
Toggle_namespace == "toggle"
Toggle_inactiveClass == "hidden"
Toggle_activeClass == "active"
Toggle_elAriaRoles == <<"aria-pressed", "aria-expanded">>
Toggle_targetAriaRoles == <<"aria-hidden">>
\* the tag names of Toggle.elFocusable; its attribute selectors are [tabindex],
\* which focusableChildren reads from attr, and [contenteditable] and [usemap],
\* which no element of the document carries
Toggle_elFocusable ==
  {"A", "BUTTON", "INPUT", "SELECT", "TEXTAREA", "OBJECT", "EMBED", "FORM",
   "FIELDSET", "LEGEND", "LABEL", "AREA", "AUDIO", "VIDEO", "IFRAME", "SVG",
   "DETAILS", "TABLE"}
Toggle_events == <<"click", "change">>
Toggle_elements ==
  [CLICK |-> {"A", "BUTTON"}, CHANGE |-> {"SELECT", "INPUT", "TEXTAREA"}]

\* the selector Default.accordion passes
Accordion_selector == "[data-js*=accordion]"

toUpperCase(type) == IF type = "click" THEN "CLICK" ELSE "CHANGE"

----------------------------------------------------------------------------
(* The document the behaviours run on.  Attributes the code only reads are  *)
(* fixed here; the ones it writes are in the variable attr.                 *)

El(tag, id, href, controls, matches, undo, parent, tabdefault) ==
  [tagName |-> tag, id |-> id, href |-> href, controls |-> controls,
   matches |-> matches, undo |-> undo, parentNode |-> parent,
   tabdefault |-> tabdefault]

\* document order
Elems ==
  <<"a1", "a2", "b1", "ab", "x0", "xm", "bm", "px", "pp", "inp", "tu", "undo",
    "panel", "c1", "c2", "panel2">>

ElemSet == {Elems[k] : k \in 1..Len(Elems)}

Page ==
     "a1"     :> El("A", Null, "#panel", Null, {Toggle_selector}, Null, "body", Null)
  @@ "a2"     :> El("A", Null, "#panel", Null, {Toggle_selector}, Null, "body", Null)
  @@ "b1"     :> El("BUTTON", Null, Null, "panel", {Toggle_selector}, Null, "body", Null)
  @@ "ab"     :> El("A", Null, "#panel2", "panel", {Toggle_selector}, Null, "body", Null)
  @@ "x0"     :> El("A", Null, Null, Null, {Toggle_selector}, Null, "body", Null)
  @@ "xm"     :> El("A", Null, "#missing", Null, {Toggle_selector}, Null, "body", Null)
  @@ "bm"     :> El("BUTTON", Null, Null, "missing", {Toggle_selector}, Null, "body", Null)
  @@ "px"     :> El("A", Null, "/path", "panel", {Toggle_selector}, Null, "body", Null)
  @@ "pp"     :> El("A", Null, "/path", Null, {Toggle_selector}, Null, "body", Null)
  @@ "inp"    :> El("INPUT", Null, Null, "panel2", {Toggle_selector}, Null, "body", Null)
  @@ "tu"     :> El("BUTTON", Null, Null, "panel", {Toggle_selector}, "#undo", "body", Null)
  @@ "undo"   :> El("BUTTON", "undo", Null, Null, {}, Null, "body", Null)
  @@ "panel"  :> El("DIV", "panel", Null, Null, {}, Null, "body", Null)
  @@ "c1"     :> El("INPUT", Null, Null, Null, {}, Null, "panel", Null)
  @@ "c2"     :> El("A", Null, Null, Null, {}, Null, "panel", "2")
  @@ "panel2" :> El("DIV", "panel2", Null, Null, {}, Null, "body", Null)

\* the attributes the code writes
DynAttrs == {"aria-hidden", "aria-pressed", "aria-expanded", "tabindex"}

\* the names the document uses after '#'; only these make a valid id selector
IdNames == {"panel", "panel2", "missing", "undo"}

----------------------------------------------------------------------------
(* DOM primitives *)

\* the state the handlers read and write, as one value handed from step to step
World ==
  [cls |-> cls, attr |-> attr, hash |-> hash, focus |-> focus,
   toggles |-> toggles, registry |-> registry, bodyL |-> bodyL,
   elemL |-> elemL, log |-> log, err |-> err]

\* element.getAttribute(name): null when the attribute is missing
getAttribute(w, e, name) ==
  IF name \in DynAttrs THEN w.attr[e][name]
  ELSE IF name = "href" THEN Page[e].href
  ELSE IF name = "aria-controls" THEN Page[e].controls
  ELSE IF name = "data-toggle-tabindex" THEN Page[e].tabdefault
  ELSE IF name = "data-toggle-undo" THEN Page[e].undo
  ELSE Null

hasAttribute(w, e, name) == getAttribute(w, e, name) # Null

setAttribute(w, e, name, value) == [w EXCEPT !.attr[e][name] = value]

removeAttribute(w, e, name) == [w EXCEPT !.attr[e][name] = Null]

\* JavaScript truthiness of an attribute value: null and "" are falsy
Truthy(value) == value # Null /\ value # ""

\* The definitions named Faulty_ are variants of the definition that follows
\* them with one plausible slip each; the properties below tell them apart
\* from the code.
Faulty_classListAdd(w, e, c) == [w EXCEPT !.cls[e] = @ \cup {c}]

\* element.classList.toggle(c)
classListToggle(w, e, c) ==
  [w EXCEPT !.cls[e] = IF c \in @ THEN @ \ {c} ELSE @ \cup {c}]

contains(w, e, c) == c \in w.cls[e]

\* document.querySelector(sel) for the selectors the code builds: '#id' gives
\* the first element in document order with that id, or null; a string that is
\* no selector throws.
querySelector(sel) ==
  IF sel \notin {"#" \o n : n \in IdNames} THEN Throw
  ELSE LET hits == {k \in 1..Len(Elems) :
                      Page[Elems[k]].id # Null /\ "#" \o Page[Elems[k]].id = sel}
       IN IF hits = {} THEN Null
          ELSE Elems[CHOOSE k \in hits : \A j \in hits : k <= j]

\* document.querySelectorAll('[name="value"]'), in document order
querySelectorAllAttr(w, name, value) ==
  SelectSeq(Elems, LAMBDA e : getAttribute(w, e, name) = value)

\* target.querySelectorAll(Toggle.elFocusable.join(', ')): the descendants of
\* the target with a focusable tag or a tabindex attribute
Descends(e, t) ==
  \/ Page[e].parentNode = t
  \/ Page[e].parentNode \in ElemSet /\ Page[Page[e].parentNode].parentNode = t

focusableChildren(w, t) ==
  SelectSeq(Elems, LAMBDA e :
    /\ Descends(e, t)
    /\ \/ Page[e].tagName \in Toggle_elFocusable
       \/ hasAttribute(w, e, "tabindex"))

\* a step of the last event, appended to the log
Did(w, step) == [w EXCEPT !.log = Append(@, step)]

\* F applied to the value of x: the statements of a handler run one after the
\* other, each on the state the one before it left
Let(x, F(_)) == CHOOSE r \in {F(v) : v \in {x}} : TRUE

\* nodeList.forEach(F), and the for loops: F applied to the elements in order
forEach(w, elements, F(_, _)) ==
  LET after[k \in 0..Len(elements)] ==
        IF k = 0 THEN w
        ELSE Let(after[k - 1], LAMBDA v : F(v, elements[k]))
  IN after[Len(elements)]

----------------------------------------------------------------------------
(* Toggle, src/js/default.js:16-378 *)

\* A settings object s as the caller passes it: a field is Null when it is not
\* given (or falsy); own holds the names the object has as own properties and
\* gives the value false.
NoSettings ==
  [selector |-> Null, namespace |-> Null, inactiveClass |-> Null,
   activeClass |-> Null, before |-> Null, after |-> Null, valid |-> Null,
   own |-> {}, focusable |-> TRUE, jump |-> TRUE, element |-> Null]

Listener(kind, type, i, element, target) ==
  [kind |-> kind, type |-> type, inst |-> i, element |-> element,
   target |-> target]

\* lines 31-41: the settings merged onto the class defaults
Settings(s) ==
  [selector |-> IF s.selector # Null THEN s.selector ELSE Toggle_selector,
   namespace |-> IF s.namespace # Null THEN s.namespace ELSE Toggle_namespace,
   inactiveClass |->
     IF s.inactiveClass # Null THEN s.inactiveClass ELSE Toggle_inactiveClass,
   activeClass |->
     IF s.activeClass # Null THEN s.activeClass ELSE Toggle_activeClass,
   before |-> s.before,
   after |-> s.after,
   valid |-> s.valid,
   focusable |-> IF "focusable" \in s.own THEN s.focusable ELSE TRUE,
   jump |-> IF "jump" \in s.own THEN s.jump ELSE TRUE]

Faulty_AddDelegatedAlways(w, i, selector) ==
  forEach(w, Toggle_events,
    LAMBDA v, tggleEvent :
      [v EXCEPT !.bodyL =
         Append(@, Listener("delegated", tggleEvent, i, Null, Null))])

Faulty_AddDelegatedLatest(w, i, selector) ==
  forEach([w EXCEPT !.bodyL = <<>>], Toggle_events,
    LAMBDA v, tggleEvent :
      [v EXCEPT !.bodyL =
         Append(@, Listener("delegated", tggleEvent, i, Null, Null))])

\* lines 52-73: the delegated listeners, one per event type, unless the
\* selector is already recorded
AddDelegated(w, i, selector) ==
  Let(w, LAMBDA w1 :
    IF selector \notin w1.registry
    THEN forEach(w1, Toggle_events,
           LAMBDA v, tggleEvent :
             [v EXCEPT !.bodyL =
                Append(@, Listener("delegated", tggleEvent, i, Null, Null))])
    ELSE w1)

\* new Toggle(s), lines 24-81
Constructor(w, s) ==
  Let(w, LAMBDA w0 :
    LET i == Len(w0.toggles) + 1
        this == [settings |-> Settings(s), element |-> s.element,
                 target |-> Null, others |-> <<>>, focusable |-> <<>>]
        w1 == [w0 EXCEPT !.toggles = Append(@, this)]
        w2 == IF this.element # Null
              THEN [w1 EXCEPT !.elemL[this.element] =
                      Append(@, Listener("toggle", "click", i, Null, Null))]
              ELSE AddDelegated(w1, i, this.settings.selector)
    IN [w2 EXCEPT !.registry = @ \cup {this.settings.selector}])

\* isActive(element), lines 113-131
isActive(w, i, element) ==
  IF w.toggles[i].settings.activeClass # Null
  THEN contains(w, element, w.toggles[i].settings.activeClass)
  ELSE FALSE

Faulty_getTargetHrefFirst(w, element) ==
  IF hasAttribute(w, element, "href")
  THEN querySelector(getAttribute(w, element, "href"))
  ELSE IF hasAttribute(w, element, "aria-controls")
  THEN querySelector("#" \o getAttribute(w, element, "aria-controls"))
  ELSE Null

Faulty_getTargetSelf(w, element) ==
  LET byHref == IF hasAttribute(w, element, "href")
                THEN querySelector(getAttribute(w, element, "href"))
                ELSE element
      found == IF byHref = Throw THEN Throw
               ELSE IF hasAttribute(w, element, "aria-controls")
               THEN querySelector("#" \o getAttribute(w, element, "aria-controls"))
               ELSE byHref
  IN IF found = Null THEN element ELSE found

\* getTarget(element), lines 138-150: the aria-controls lookup is made after the
\* href lookup and replaces its result
getTarget(w, element) ==
  LET byHref == IF hasAttribute(w, element, "href")
                THEN querySelector(getAttribute(w, element, "href"))
                ELSE Null
  IN IF byHref = Throw THEN Throw
     ELSE IF hasAttribute(w, element, "aria-controls")
          THEN querySelector("#" \o getAttribute(w, element, "aria-controls"))
          ELSE byHref

\* getOthers(element), lines 200-210
getOthers(w, element) ==
  IF hasAttribute(w, element, "href")
  THEN querySelectorAllAttr(w, "href", getAttribute(w, element, "href"))
  ELSE IF hasAttribute(w, element, "aria-controls")
  THEN querySelectorAllAttr(w, "aria-controls",
                            getAttribute(w, element, "aria-controls"))
  ELSE <<>>

\* toggleFocusable(elements), lines 221-240
toggleFocusable(w, elements) ==
  forEach(w, elements,
    LAMBDA v, element :
      IF getAttribute(v, element, "tabindex") = "-1"
      THEN LET dataDefault ==
                 getAttribute(v, element, "data-" \o Toggle_namespace \o "-tabindex")
           IN IF Truthy(dataDefault)
              THEN setAttribute(v, element, "tabindex", dataDefault)
              ELSE removeAttribute(v, element, "tabindex")
      ELSE setAttribute(v, element, "tabindex", "-1"))

Faulty_jumpToKeepsTabindex(w, i, element, target) ==
  Let([w EXCEPT !.hash = ""], LAMBDA w1 :
    IF contains(w1, target, w1.toggles[i].settings.activeClass)
    THEN [(IF hasAttribute(w1, target, "tabindex") THEN w1
           ELSE setAttribute(w1, target, "tabindex", "0"))
            EXCEPT !.hash = getAttribute(w1, element, "href"),
                   !.focus = target]
    ELSE w1)

\* jumpTo(element, target), lines 251-268: pushState drops the fragment; an
\* active target gets the hash, tabindex 0 and the focus
jumpTo(w, i, element, target) ==
  Let([w EXCEPT !.hash = ""], LAMBDA w1 :
    IF contains(w1, target, w1.toggles[i].settings.activeClass)
    THEN [setAttribute(w1, target, "tabindex", "0")
            EXCEPT !.hash = getAttribute(w1, element, "href"),
                   !.focus = target]
    ELSE removeAttribute(w1, target, "tabindex"))

\* a callback of the settings, called with the instance: the guard answers what
\* the event's input says, a plain hook does nothing to the page, and the after
\* hook of Default.accordion (lines 796-798) toggles is-expanded on the parent
\* of the instance's element
CallHook(w, i, hook) ==
  Let(w, LAMBDA w1 :
    IF hook = "accordion"
    THEN classListToggle(Did(w1, "after"),
                         Page[w1.toggles[i].element].parentNode, "is-expanded")
    ELSE Did(w1, hook))

Faulty_FlipAlwaysTrue(value) == "true"

\* (value === 'true') ? 'false' : 'true', lines 334, 360 and 365
FlipOf(value) == IF value = "true" THEN "false" ELSE "true"

Faulty_ToggleActiveNoOthers(w, i) ==
  Let(w, LAMBDA w0 :
    LET this == w0.toggles[i]
        ac == this.settings.activeClass
    IN classListToggle(classListToggle(w0, this.element, ac), this.target, ac))

\* lines 311-320: the active class on the element, the target and the others
ToggleActive(w, i) ==
  Let(w, LAMBDA w0 :
    LET this == w0.toggles[i]
        ac == this.settings.activeClass
    IN forEach(classListToggle(classListToggle(w0, this.element, ac),
                               this.target, ac),
               this.others,
         LAMBDA v, other :
           IF other # this.element THEN classListToggle(v, other, ac) ELSE v))

Faulty_ToggleTargetAriaAny(w, i) ==
  Let(w, LAMBDA w0 :
    forEach(w0, Toggle_targetAriaRoles,
      LAMBDA v, a :
        setAttribute(v, w0.toggles[i].target, a,
          FlipOf(getAttribute(v, w0.toggles[i].target, a)))))

\* lines 329-335: the target's aria attributes
ToggleTargetAria(w, i) ==
  Let(w, LAMBDA w0 :
    forEach(w0, Toggle_targetAriaRoles,
      LAMBDA v, a :
        LET value == getAttribute(v, w0.toggles[i].target, a)
        IN IF value # "" /\ Truthy(value)
           THEN setAttribute(v, w0.toggles[i].target, a, FlipOf(value))
           ELSE v))

\* lines 355-367: the element's aria attributes, and the others'
ToggleElAria(w, i) ==
  Let(w, LAMBDA w0 :
    LET this == w0.toggles[i]
    IN forEach(w0, Toggle_elAriaRoles,
         LAMBDA v, a :
           LET value == getAttribute(v, this.element, a)
           IN forEach(IF value # "" /\ Truthy(value)
                      THEN setAttribute(v, this.element, a, FlipOf(value))
                      ELSE v,
                      this.others,
                LAMBDA u, other :
                  IF other # this.element /\ Truthy(getAttribute(u, other, a))
                  THEN setAttribute(u, other, a, FlipOf(value))
                  ELSE u)))

Faulty_ToggleInactiveOnElement(w, i, target) ==
  classListToggle(
    classListToggle(w, target, w.toggles[i].settings.inactiveClass),
    w.toggles[i].element, w.toggles[i].settings.inactiveClass)

Faulty_ToggleInactiveAdd(w, i, target) ==
  Faulty_classListAdd(w, target, w.toggles[i].settings.inactiveClass)

\* line 323: the inactive class, on the target
ToggleInactive(w, i, target) ==
  classListToggle(w, target, w.toggles[i].settings.inactiveClass)

Faulty_GuardNeverDeclines(w, i, ev) == FALSE

\* lines 297-298: a guard is configured and returns false; ev.ok is what the
\* guard returns during this event
GuardDeclines(w, i, ev) ==
  w.toggles[i].settings.valid # Null /\ ~ev.ok

Faulty_ToggleStepsAfterEarly ==
  <<"before", "activeClass", "inactiveClass", "targetAria", "focusable",
    "jump", "after", "elAria">>

\* the statements of elementToggle after the guard, in the order of the code
ToggleSteps ==
  <<"before", "activeClass", "inactiveClass", "targetAria", "focusable",
    "jump", "elAria", "after">>

\* one of them, lines 304-374
ToggleStep(w, i, target, step) ==
  LET this == w.toggles[i]
      s == this.settings
  IN CASE step = "before" ->
            IF s.before # Null THEN CallHook(w, i, s.before) ELSE w
       [] step = "activeClass" ->
            IF s.activeClass # Null THEN ToggleActive(Did(w, step), i) ELSE w
       [] step = "inactiveClass" ->
            IF s.inactiveClass # Null
            THEN ToggleInactive(Did(w, step), i, target)
            ELSE w
       [] step = "targetAria" -> ToggleTargetAria(Did(w, step), i)
       [] step = "focusable" ->
            IF s.focusable
            THEN toggleFocusable(Did(w, step), this.focusable)
            ELSE w
       [] step = "jump" ->
            IF s.jump /\ hasAttribute(w, this.element, "href")
            THEN jumpTo(Did(w, step), i, this.element, this.target)
            ELSE w
       [] step = "elAria" -> ToggleElAria(Did(w, step), i)
       [] step = "after" ->
            IF s.after # Null THEN CallHook(w, i, s.after) ELSE w

\* elementToggle(element, target, focusable), lines 279-377
elementToggle(w, i, element, target, focusable, ev) ==
  Let(w, LAMBDA w0 :
    Let(Did([w0 EXCEPT !.toggles[i].element = element,
                       !.toggles[i].target = target,
                       !.toggles[i].others = getOthers(w0, element),
                       !.toggles[i].focusable = focusable],
            "elementToggle"),
        LAMBDA w1 :
          IF GuardDeclines(w1, i, ev)
          THEN Did(CallHook(w1, i, w1.toggles[i].settings.valid), "abort")
          ELSE forEach(IF w1.toggles[i].settings.valid # Null
                       THEN CallHook(w1, i, w1.toggles[i].settings.valid)
                       ELSE w1,
                       ToggleSteps,
                 LAMBDA v, step : ToggleStep(v, i, target, step))))

\* lines 176-187: the click listener on the element the undo data attribute of
\* the trigger names
AddUndo(w, i, element, target) ==
  LET name == getAttribute(w, element,
                "data-" \o w.toggles[i].settings.namespace \o "-undo")
      undo == querySelector(name)
  IN IF ~Truthy(name) THEN w
     ELSE IF undo \in {Throw, Null} THEN [w EXCEPT !.err = TRUE]
     ELSE [w EXCEPT !.elemL[undo] =
             Append(@, Listener("undo", "click", i, element, target))]

\* toggle(event), lines 159-190
toggle(w, i, ev) ==
  Let(Did(w, "preventDefault"), LAMBDA w0 :
    LET element == ev.target
        target == getTarget(w0, element)
    IN IF target = Throw THEN [w0 EXCEPT !.err = TRUE]
       ELSE IF target = Null THEN w0
       ELSE Let(elementToggle(w0, i, element, target,
                              focusableChildren(w0, target), ev),
                LAMBDA w1 : AddUndo(w1, i, element, target)))

\* the listener toggle adds to the undo element, lines 182-186:
\* removeEventListener is called without the listener, which throws
UndoListener(w, l, ev) ==
  [elementToggle(Did(w, "preventDefault"), l.inst, l.element, l.target,
                 <<>>, ev)
     EXCEPT !.err = TRUE]

\* click(event), lines 88-90
click(w, i, ev) == toggle(w, i, ev)

Faulty_changeAlways(w, i, ev) == toggle(w, i, ev)

\* change(event), lines 98-106; ev.valid is event.target.checkValidity()
change(w, i, ev) ==
  IF ev.valid /\ ~isActive(w, i, ev.target) THEN toggle(w, i, ev)
  ELSE IF ~ev.valid /\ isActive(w, i, ev.target) THEN toggle(w, i, ev)
  ELSE w

Faulty_DelegatedAnyTag(w, i, ev) ==
  IF w.toggles[i].settings.selector \notin Page[ev.target].matches THEN w
  ELSE IF ev.type = "click" THEN click(w, i, ev) ELSE change(w, i, ev)

\* the delegated listener on the body, lines 58-71
Delegated(w, i, ev) ==
  IF w.toggles[i].settings.selector \notin Page[ev.target].matches THEN w
  ELSE IF Page[ev.target].tagName \in Toggle_elements[toUpperCase(ev.type)]
  THEN IF ev.type = "click" THEN click(w, i, ev) ELSE change(w, i, ev)
  ELSE w

----------------------------------------------------------------------------
(* Event dispatch *)

\* the nodes an event on e reaches, e first: the event bubbles to the body
RECURSIVE Path(_)
Path(e) == IF e = "body" THEN <<"body">> ELSE <<e>> \o Path(Page[e].parentNode)

ListenersAt(w, node, type) ==
  IF node = "body" THEN SelectSeq(w.bodyL, LAMBDA l : l.type = type)
  ELSE SelectSeq(w.elemL[node], LAMBDA l : l.type = type)

RunListener(w, l, ev) ==
  IF l.kind = "delegated" THEN Delegated(w, l.inst, ev)
  ELSE IF l.kind = "toggle" THEN toggle(w, l.inst, ev)
  ELSE UndoListener(w, l, ev)

\* every listener of the event's type on the path runs, in order; a listener
\* that throws does not stop the ones after it
dispatchEvent(w, ev) ==
  forEach([w EXCEPT !.log = <<>>, !.err = FALSE], Path(ev.target),
    LAMBDA v, node :
      forEach(v, ListenersAt(v, node, ev.type),
        LAMBDA u, l : RunListener(u, l, ev)))

----------------------------------------------------------------------------
(* The pages the behaviours start on *)

Nodes == ElemSet \cup {"body"}

\* the closed state: both panels hidden, their triggers inactive
BaseCls == [n \in Nodes |-> IF n \in {"panel", "panel2"} THEN {"hidden"} ELSE {}]

BaseAttr ==
  [e \in ElemSet |->
     [a \in DynAttrs |->
        IF a = "aria-hidden" /\ e \in {"panel", "panel2"} THEN "true"
        ELSE IF a = "aria-expanded" /\ e \in {"a1", "a2"} THEN "false"
        ELSE IF a = "aria-pressed" /\ e = "b1" THEN "false"
        ELSE IF a = "tabindex" /\ e = "c2" THEN Page[e].tabdefault
        ELSE Null]]

\* the values the panel's aria-hidden starts with: missing, empty, the two
\* boolean strings and another string
AriaValues == {Null, "", "true", "false", "mixed"}

\* the panel open: active, not hidden
OpenCls == {"active"}

\* the pages: any class membership of the two anchors of the panel, with the
\* panel closed or open; and the closed page with any aria-hidden value on the
\* panel
InitPages ==
  {[cls |-> [BaseCls EXCEPT !["a1"] = c1, !["a2"] = c2, !["panel"] = cp],
    attr |-> BaseAttr] :
     c1 \in SUBSET {"active"}, c2 \in SUBSET {"active"},
     cp \in {{Toggle_inactiveClass}, OpenCls}}
  \cup
  {[cls |-> BaseCls,
    attr |-> [BaseAttr EXCEPT !["panel"]["aria-hidden"] = h]] :
     h \in AriaValues}

BasePage == [cls |-> BaseCls, attr |-> BaseAttr]

\* the world of a page before any script ran
Loaded(page) ==
  [cls |-> page.cls, attr |-> page.attr, hash |-> "", focus |-> "body",
   toggles |-> <<>>, registry |-> {}, bodyL |-> <<>>,
   elemL |-> [e \in ElemSet |-> <<>>], log |-> <<>>, err |-> FALSE]

\* the settings the transition specification constructs its Toggle with: the
\* defaults, alone or with a guard and the two hooks
SpecSettings ==
  {NoSettings,
   [NoSettings EXCEPT !.valid = "valid", !.before = "before", !.after = "after"]}

\* what Default.toggle and Default.accordion pass (lines 789-799), and the same
\* two selectors in single-element mode
CtorSettings ==
  {NoSettings,
   [NoSettings EXCEPT !.selector = Accordion_selector, !.after = "accordion"],
   [NoSettings EXCEPT !.element = "a1"],
   [NoSettings EXCEPT !.selector = Accordion_selector, !.element = "a1"]}

----------------------------------------------------------------------------
(* Actions *)

Commit(w) ==
  /\ cls' = w.cls
  /\ attr' = w.attr
  /\ hash' = w.hash
  /\ focus' = w.focus
  /\ toggles' = w.toggles
  /\ registry' = w.registry
  /\ bodyL' = w.bodyL
  /\ elemL' = w.elemL
  /\ log' = w.log
  /\ err' = w.err
  /\ UNCHANGED <<icons, slug, rot, col, tr>>

\* the state before an event, kept for the properties that compare with it
Before ==
  [cls |-> cls, attr |-> attr, hash |-> hash, focus |-> focus,
   elemL |-> elemL, bodyL |-> bodyL, registry |-> registry]

\* the number of calls of elementToggle in a log that passed the guard
Transitions(lg) ==
  Cardinality({k \in 1..Len(lg) : lg[k] = "elementToggle"})
    - Cardinality({k \in 1..Len(lg) : lg[k] = "abort"})

\* the answers a valid guard can give during one event
Answers ==
  IF \E k \in 1..Len(toggles) : toggles[k].settings.valid # Null
  THEN BOOLEAN ELSE {TRUE}

Event(type, e, valid, ok) ==
  [type |-> type, target |-> e, valid |-> valid, ok |-> ok]

\* the browser dispatches a click on element e
Click(e) ==
  \E ok \in Answers :
    LET ev == Event("click", e, TRUE, ok)
    IN /\ \E w \in {dispatchEvent(World, ev)} : Commit(w)
       /\ last' = [ev |-> ev, pre |-> Before,
                   again |-> /\ last.ev.type = "click"
                             /\ last.ev.target = e
                             /\ Transitions(log) = 1]
       /\ UNCHANGED args

\* the browser dispatches a change on form control e, valid or not
Change(e, valid) ==
  \E ok \in Answers :
    LET ev == Event("change", e, valid, ok)
    IN /\ \E w \in {dispatchEvent(World, ev)} : Commit(w)
       /\ last' = [ev |-> ev, pre |-> Before, again |-> FALSE]
       /\ UNCHANGED args

\* a script calls new Toggle(s)
Construct(s) ==
  /\ Len(toggles) < MaxToggles
  /\ \E w \in {[Constructor(World, s) EXCEPT !.log = <<>>, !.err = FALSE]} :
       Commit(w)
  /\ last' = [ev |-> Event("construct", Null, TRUE, TRUE), pre |-> Before,
              again |-> FALSE]
  /\ args' = Append(args, s)

NoEvent ==
  [ev |-> Event("load", Null, TRUE, TRUE),
   pre |-> [cls |-> BaseCls, attr |-> BaseAttr, hash |-> "", focus |-> "body",
            elemL |-> [e \in ElemSet |-> <<>>], bodyL |-> <<>>,
            registry |-> {}],
   again |-> FALSE]

\* only the Toggle is on the page
OnlyToggle ==
  /\ icons = NotConstructed
  /\ slug = NotConstructed
  /\ rot = NotConstructed
  /\ col = NotConstructed
  /\ tr = NotConstructed

\* the elements Spec dispatches clicks on: the links and buttons a selector
\* matches, those that name an undo element left to SpecUndo
Clickable ==
  {e \in ElemSet :
     /\ Page[e].matches # {}
     /\ Page[e].tagName \in Toggle_elements.CLICK
     /\ Page[e].undo = Null}

\* the form controls a selector matches
FormControls ==
  {e \in ElemSet :
     Page[e].matches # {} /\ Page[e].tagName \in Toggle_elements.CHANGE}

\* the elements SpecCtor dispatches clicks on: the anchor the single-element
\* instances are built on, and another anchor and a button of the same panel
CtorClickable == {"a1", "a2", "b1"}

----------------------------------------------------------------------------
(* Spec: one Toggle, constructed in delegated mode on any of the pages, and   *)
(* the clicks on the page's links and buttons.                                *)

Init ==
  \E page \in InitPages, s \in SpecSettings :
    \E w \in {Constructor(Loaded(page), s)} :
       /\ cls = w.cls
       /\ attr = w.attr
       /\ hash = w.hash
       /\ focus = w.focus
       /\ toggles = w.toggles
       /\ registry = w.registry
       /\ bodyL = w.bodyL
       /\ elemL = w.elemL
       /\ log = w.log
       /\ err = w.err
       /\ last = NoEvent
       /\ args = <<s>>
       /\ OnlyToggle

Next == \E e \in Clickable : Click(e)

Spec == Init /\ [][Next]_vars

----------------------------------------------------------------------------
(* SpecCtor: the closed page, any sequence of constructor calls and events.   *)

\* the closed page loaded, no Toggle constructed yet
PageLoaded ==
  \E w \in {Loaded(BasePage)} :
     /\ cls = w.cls
     /\ attr = w.attr
     /\ hash = w.hash
     /\ focus = w.focus
     /\ toggles = w.toggles
     /\ registry = w.registry
     /\ bodyL = w.bodyL
     /\ elemL = w.elemL
     /\ log = w.log
     /\ err = w.err
     /\ last = NoEvent
     /\ args = <<>>

InitCtor == PageLoaded /\ OnlyToggle

NextCtor ==
  \/ \E s \in CtorSettings : Construct(s)
  \/ \E e \in CtorClickable : Click(e)
  \/ \E e \in FormControls, valid \in BOOLEAN : Change(e, valid)

SpecCtor == InitCtor /\ [][NextCtor]_vars

----------------------------------------------------------------------------
(* SpecUndo: one delegated Toggle, the button tu whose data-toggle-undo names *)
(* the button undo, and the clicks on tu, on undo and on another button of    *)
(* the same panel.                                                            *)

\* clicks on tu in one behaviour of SpecUndo (each adds a listener to undo)
MaxUndo == 2

UndoPages ==
  {BasePage, [BasePage EXCEPT !.cls["panel"] = OpenCls,
                              !.attr["panel"]["aria-hidden"] = "false"]}

UndoClickable == {"undo", "b1"}

InitUndo ==
  \E page \in UndoPages, s \in SpecSettings :
    \E w \in {Constructor(Loaded(page), s)} :
       /\ cls = w.cls
       /\ attr = w.attr
       /\ hash = w.hash
       /\ focus = w.focus
       /\ toggles = w.toggles
       /\ registry = w.registry
       /\ bodyL = w.bodyL
       /\ elemL = w.elemL
       /\ log = w.log
       /\ err = w.err
       /\ last = NoEvent
       /\ args = <<s>>
       /\ OnlyToggle

ClickTrigger ==
  /\ Len(elemL["undo"]) < MaxUndo
  /\ Click("tu")

NextUndo ==
  \/ ClickTrigger
  \/ \E e \in UndoClickable : Click(e)

SpecUndo == InitUndo /\ [][NextUndo]_vars

----------------------------------------------------------------------------
(* SpecUndoFocus: SpecUndo on pages where the descendants' tab-reachability   *)
(* agrees with the panel: closed with both descendants at tabindex -1, or     *)
(* open with the tabindex of the markup.                                      *)

UndoFocusPages ==
  {[BasePage EXCEPT !.attr["c1"]["tabindex"] = "-1",
                    !.attr["c2"]["tabindex"] = "-1"],
   [BasePage EXCEPT !.cls["panel"] = OpenCls,
                    !.attr["panel"]["aria-hidden"] = "false"]}

InitUndoFocus ==
  \E page \in UndoFocusPages, s \in SpecSettings :
    \E w \in {Constructor(Loaded(page), s)} :
       /\ cls = w.cls
       /\ attr = w.attr
       /\ hash = w.hash
       /\ focus = w.focus
       /\ toggles = w.toggles
       /\ registry = w.registry
       /\ bodyL = w.bodyL
       /\ elemL = w.elemL
       /\ log = w.log
       /\ err = w.err
       /\ last = NoEvent
       /\ args = <<s>>
       /\ OnlyToggle

SpecUndoFocus == InitUndoFocus /\ [][NextUndo]_vars

----------------------------------------------------------------------------
(* SpecShared: the closed page, constructor calls in delegated mode that all  *)
(* use the default selector and differ in hooks, classes, focusable and jump, *)
(* and the clicks on an anchor and a button of the panel.                     *)

\* the defaults; a guard and the two hooks; another active class with
\* focusable and jump passed as false
SharedSettings ==
  {NoSettings,
   [NoSettings EXCEPT !.valid = "valid", !.before = "before", !.after = "after"],
   [NoSettings EXCEPT !.activeClass = "is-open", !.own = {"focusable", "jump"},
                      !.focusable = FALSE, !.jump = FALSE]}

SharedClickable == {"a1", "b1"}

NextShared ==
  \/ \E s \in SharedSettings : Construct(s)
  \/ \E e \in SharedClickable : Click(e)

SpecShared == InitCtor /\ [][NextShared]_vars

----------------------------------------------------------------------------
(* SpecSkip: one delegated Toggle constructed with any of activeClass,        *)
(* inactiveClass, focusable and jump given as false, and the clicks on an     *)
(* anchor and a button of the panel.                                          *)

SkippableSteps == {"activeClass", "inactiveClass", "focusable", "jump"}

\* {activeClass: false, ...}: the names in o are passed with the value false
SkipSettings ==
  {[NoSettings EXCEPT !.own = o,
                      !.focusable = "focusable" \notin o,
                      !.jump = "jump" \notin o] : o \in SUBSET SkippableSteps}

SkipClickable == {"a1", "b1"}

InitSkip ==
  \E page \in UndoPages, s \in SkipSettings :
    \E w \in {Constructor(Loaded(page), s)} :
       /\ cls = w.cls
       /\ attr = w.attr
       /\ hash = w.hash
       /\ focus = w.focus
       /\ toggles = w.toggles
       /\ registry = w.registry
       /\ bodyL = w.bodyL
       /\ elemL = w.elemL
       /\ log = w.log
       /\ err = w.err
       /\ last = NoEvent
       /\ args = <<s>>
       /\ OnlyToggle

NextSkip == \E e \in SkipClickable : Click(e)

SpecSkip == InitSkip /\ [][NextSkip]_vars

----------------------------------------------------------------------------
(* SpecFocus: one delegated Toggle with the default settings (focusable and   *)
(* jump on), the panel closed or open, any tabindex on its two focusable      *)
(* descendants, the panel with or without a tabindex of its own, and the      *)
(* clicks on an anchor and a button of the panel.                             *)

\* the tabindex a descendant starts with: none, 0, a positive one, -1
TabValues == {Null, "0", "2", "-1"}

\* the tabindex the panel starts with: none, or its own
PanelTabValues == {Null, "3"}

FocusPages ==
  {[cls |-> [BaseCls EXCEPT !["panel"] = cp],
    attr |-> [BaseAttr EXCEPT
                !["panel"]["aria-hidden"] =
                   IF cp = OpenCls THEN "false" ELSE "true",
                !["panel"]["tabindex"] = tp,
                !["c1"]["tabindex"] = t1,
                !["c2"]["tabindex"] = t2]] :
     cp \in {{Toggle_inactiveClass}, OpenCls},
     tp \in PanelTabValues, t1 \in TabValues, t2 \in TabValues}

FocusClickable == {"a1", "b1"}

InitFocus ==
  \E page \in FocusPages :
    \E w \in {Constructor(Loaded(page), NoSettings)} :
       /\ cls = w.cls
       /\ attr = w.attr
       /\ hash = w.hash
       /\ focus = w.focus
       /\ toggles = w.toggles
       /\ registry = w.registry
       /\ bodyL = w.bodyL
       /\ elemL = w.elemL
       /\ log = w.log
       /\ err = w.err
       /\ last = NoEvent
       /\ args = <<NoSettings>>
       /\ OnlyToggle

NextFocus == \E e \in FocusClickable : Click(e)

SpecFocus == InitFocus /\ [][NextFocus]_vars

----------------------------------------------------------------------------
(* SpecTags: one delegated Toggle, with or without the guard and the hooks,   *)
(* and clicks and changes on elements of either tag set and of none, matched  *)
(* by the selector or not.                                                    *)

\* an anchor, a button and an input the selector matches, and an input and a
\* button it does not match
TagTargets == {"a1", "b1", "inp", "c1", "undo"}

InitTags ==
  \E s \in SpecSettings :
    \E w \in {Constructor(Loaded(BasePage), s)} :
       /\ cls = w.cls
       /\ attr = w.attr
       /\ hash = w.hash
       /\ focus = w.focus
       /\ toggles = w.toggles
       /\ registry = w.registry
       /\ bodyL = w.bodyL
       /\ elemL = w.elemL
       /\ log = w.log
       /\ err = w.err
       /\ last = NoEvent
       /\ args = <<s>>
       /\ OnlyToggle

NextTags ==
  \/ \E e \in TagTargets : Click(e)
  \/ \E e \in TagTargets, valid \in BOOLEAN : Change(e, valid)

SpecTags == InitTags /\ [][NextTags]_vars

----------------------------------------------------------------------------
(* Properties of the transition (Spec) *)

\* the last event was a click on e
ClickedOn(e) == last.ev.type = "click" /\ last.ev.target = e

\* the Toggle of Spec has no guard and no hooks
Plain ==
  /\ toggles[1].settings.valid = Null
  /\ toggles[1].settings.before = Null
  /\ toggles[1].settings.after = Null

Has(classes, e, c) == c \in classes[e]

\* C1: with the default selector and classes and no hooks, a delegated click on
\* the anchor a1 (href "#panel", carrying no class before the click), while the
\* panel has class hidden, lacks class active and has aria-hidden "true", ends
\* with the anchor active, the panel active and not hidden, and the panel's
\* aria-hidden the string "false".
C1_EndToEnd ==
  ( /\ ClickedOn("a1")
    /\ Plain
    /\ last.pre.cls["a1"] = {}
    /\ Has(last.pre.cls, "panel", "hidden")
    /\ ~Has(last.pre.cls, "panel", "active")
    /\ last.pre.attr["panel"]["aria-hidden"] = "true" )
  => /\ Has(cls, "a1", "active")
     /\ ~Has(cls, "panel", "hidden")
     /\ Has(cls, "panel", "active")
     /\ attr["panel"]["aria-hidden"] = "false"

C1_Witness ==
  /\ ClickedOn("a1")
  /\ Plain
  /\ last.pre.cls["a1"] = {}
  /\ last.pre.cls["panel"] = {"hidden"}
  /\ last.pre.attr["panel"]["aria-hidden"] = "true"
  /\ cls["a1"] = {"active"}
  /\ cls["panel"] = {"active"}
  /\ attr["panel"]["aria-hidden"] = "false"

\* C2: two clicks in succession on the same trigger, each making one transition
\* (no guard, or a guard that lets both pass), leave the active class membership
\* of the trigger and of the target as it was before the first of them.
C2_Involution ==
  [][ ( /\ last.ev.type = "click"
        /\ Transitions(log) = 1
        /\ last'.ev.type = "click"
        /\ last'.ev.target = last.ev.target
        /\ Transitions(log') = 1 )
      => \A x \in {last.ev.target, toggles'[1].target} :
           Has(cls', x, toggles[1].settings.activeClass)
             = Has(last.pre.cls, x, toggles[1].settings.activeClass) ]_vars

C2_Witness ==
  /\ last.again
  /\ Plain
  /\ ClickedOn("a1")
  /\ Transitions(log) = 1
  /\ Has(cls, "a1", "active")
  /\ ~Has(cls, "panel", "active")

\* the triggers with the href of e, or with the aria-controls of e
SameHref(e) ==
  {x \in ElemSet : Page[e].href # Null /\ Page[x].href = Page[e].href}

SameControls(e) ==
  {x \in ElemSet : Page[e].controls # Null /\ Page[x].controls = Page[e].controls}

AllAgree(S) ==
  \A x, y \in S : Has(cls, x, "active") = Has(cls, y, "active")

OthersOf(e) == {getOthers(World, e)[k] : k \in 1..Len(getOthers(World, e))}

C4_AriaHidden ==
  /\ \A e \in ElemSet : attr[e]["aria-hidden"] \in AriaValues
  /\ \A e \in ElemSet :
       (ClickedOn(e) /\ Transitions(log) = 1)
       => LET was == last.pre.attr[toggles[1].target]["aria-hidden"]
              now == attr[toggles[1].target]["aria-hidden"]
          IN /\ was = "true" => now = "false"
             /\ was = "false" => now = "true"
             /\ was \in {Null, ""} => now = was

C4_Witness ==
  /\ ClickedOn("b1")
  /\ Transitions(log) = 1
  /\ toggles[1].target = "panel"
  /\ last.pre.attr["panel"]["aria-hidden"] = "false"
  /\ attr["panel"]["aria-hidden"] = "true"

----------------------------------------------------------------------------
(* Properties of construction (SpecCtor) *)

\* the delegated listeners on the body for an event type and a selector
DelegatedFor(type, selector) ==
  {k \in 1..Len(bodyL) :
     /\ bodyL[k].kind = "delegated"
     /\ bodyL[k].type = type
     /\ toggles[bodyL[k].inst].settings.selector = selector}

EventTypes == {Toggle_events[k] : k \in 1..Len(Toggle_events)}

Selectors == {Toggle_selector, Accordion_selector}

\* the last event was a constructor call in delegated mode
ConstructedDelegated ==
  /\ last.ev.type = "construct"
  /\ toggles[Len(toggles)].element = Null

\* C5: constructing a Toggle in delegated mode with a selector the registry
\* already holds adds no listener to the body, and over any sequence of
\* constructions the body has at most one delegated listener per event type for
\* one selector.
C5_AtMostOneDelegated ==
  /\ ( ConstructedDelegated
       /\ toggles[Len(toggles)].settings.selector \in last.pre.registry )
     => bodyL = last.pre.bodyL
  /\ \A type \in EventTypes, selector \in Selectors :
       Cardinality(DelegatedFor(type, selector)) <= 1

C5_Witness ==
  /\ ConstructedDelegated
  /\ Len(toggles) = 2
  /\ toggles[1].settings.selector = toggles[2].settings.selector
  /\ \A e \in ElemSet : elemL[e] = <<>>
  /\ Len(bodyL) = 2
  /\ last.pre.bodyL = bodyL

\* C6 as claimed: after a Toggle is constructed without an element, the body has
\* exactly one delegated click listener and one delegated change listener for
\* its selector, whatever was constructed before.
C6_DelegatedAttached ==
  ConstructedDelegated
  => \A type \in EventTypes :
       Cardinality(DelegatedFor(type, toggles[Len(toggles)].settings.selector)) = 1

\* C7 as claimed: whatever Toggle instances were constructed, one click makes at
\* most one transition.
C7_NoDoubleToggle ==
  last.ev.type = "click" => Transitions(log) <= 1

----------------------------------------------------------------------------
(* Properties of target resolution, the missing target and the guard (Spec) *)

ById(id) == {e \in ElemSet : Page[e].id = id}

\* the element the href of e names, of the page's elements
HrefElement(e) == {x \in ElemSet : Page[x].id # Null /\ "#" \o Page[x].id = Page[e].href}

\* C8 as claimed: the target of a transition is the element the trigger's href
\* selects when it has an href, and the element its aria-controls names only
\* otherwise.
C8_HrefFirst ==
  \A e \in ElemSet :
    (ClickedOn(e) /\ Transitions(log) = 1 /\ Page[e].href # Null)
    => toggles[1].target \in HrefElement(e)

\* the target by the rule of the code: aria-controls when the trigger has it,
\* otherwise href
ControlsFirst(e) ==
  IF Page[e].controls # Null THEN ById(Page[e].controls)
  ELSE IF Page[e].href # Null THEN HrefElement(e)
  ELSE {}

\* what the href of e is made of: a fragment selector ('#' and a name) or not
IsFragment(href) == href \in {"#" \o n : n \in IdNames}

\* C8 amended: the element named by aria-controls is the target whenever the
\* trigger has aria-controls (none when no element has that id, even if the
\* href selects one); the element the href selects is the target only for a
\* trigger without aria-controls; a trigger with both, referring to different
\* elements, toggles the one aria-controls names; and an href that is no
\* selector makes the handler throw before any target is used.
C8_ControlsFirst ==
  \A e \in ElemSet :
    (ClickedOn(e) /\ last.ev.ok)
    => IF Page[e].href # Null /\ ~IsFragment(Page[e].href)
       THEN err /\ Transitions(log) = 0
       ELSE IF ControlsFirst(e) = {}
       THEN ~err /\ Transitions(log) = 0
       ELSE /\ ~err
            /\ Transitions(log) = 1
            /\ toggles[1].element = e
            /\ toggles[1].target \in ControlsFirst(e)

C8_Witness ==
  /\ ClickedOn("ab")
  /\ Transitions(log) = 1
  /\ toggles[1].target = "panel"
  /\ HrefElement("ab") = {"panel2"}
  /\ Has(cls, "panel", "active")
  /\ ~Has(cls, "panel2", "active")

\* a trigger no target resolves for: it has neither attribute, or what it has
\* names no element of the page
NoTargetFor(e) ==
  /\ Page[e].href # Null => IsFragment(Page[e].href) /\ HrefElement(e) = {}
  /\ Page[e].controls # Null => ById(Page[e].controls) = {}

\* the page as the handlers can change it
PageState == [cls |-> cls, attr |-> attr, hash |-> hash, focus |-> focus]

PageBefore ==
  [cls |-> last.pre.cls, attr |-> last.pre.attr, hash |-> last.pre.hash,
   focus |-> last.pre.focus]

\* C9: a click on a trigger no target resolves for changes no class, attribute,
\* hash or focus, calls none of valid, before and after, adds no listener and
\* throws nothing.
C9_NoTargetNoOp ==
  \A e \in ElemSet :
    (ClickedOn(e) /\ NoTargetFor(e))
    => /\ PageState = PageBefore
       /\ elemL = last.pre.elemL
       /\ bodyL = last.pre.bodyL
       /\ log = <<"preventDefault">>
       /\ ~err

C9_Witness ==
  /\ ClickedOn("xm")
  /\ NoTargetFor("xm") /\ NoTargetFor("x0") /\ NoTargetFor("bm")
  /\ ~Plain
  /\ Has(cls, "panel", "active")
  /\ PageState = PageBefore
  /\ log = <<"preventDefault">>

\* C10: when the guard is configured and returns false, the click changes no
\* class, attribute, hash or focus and calls neither before nor after.
C10_GuardAborts ==
  \A e \in ElemSet :
    (ClickedOn(e) /\ toggles[1].settings.valid # Null /\ ~last.ev.ok)
    => /\ PageState = PageBefore
       /\ \A k \in 1..Len(log) :
            log[k] \in {"preventDefault", "elementToggle", "valid", "abort"}

C10_Witness ==
  /\ ClickedOn("a1")
  /\ toggles[1].settings.valid # Null
  /\ toggles[1].settings.before # Null
  /\ ~last.ev.ok
  /\ log = <<"preventDefault", "elementToggle", "valid", "abort">>
  /\ Has(cls, "panel", "active")
  /\ PageState = PageBefore

----------------------------------------------------------------------------
(* Properties of the undo listener (SpecUndo) *)

\* C11 as claimed: the listener on the undo element is removed by its first
\* run, so a click on the undo element that directly follows a click on the
\* undo element makes no transition.
C11_UndoOnce ==
  [][ ( /\ ClickedOn("undo")
        /\ last'.ev.type = "click"
        /\ last'.ev.target = "undo" )
      => Transitions(log') = 0 ]_vars

----------------------------------------------------------------------------
(* Properties of the change handler (SpecCtor) *)

\* a delegated change listener is on the body for a selector e matches
ChangeHandled(e) ==
  \E selector \in Page[e].matches : DelegatedFor("change", selector) # {}

\* C12: a delegated change event on a matched form control whose target
\* resolves, with no guard configured, makes a transition exactly when the
\* control is valid and inactive (it becomes active) or invalid and active (it
\* becomes inactive); after the event the control has the active class if and
\* only if it is valid.
C12_ChangeFollowsValidity ==
  \A e \in FormControls :
    ( /\ last.ev.type = "change"
      /\ last.ev.target = e
      /\ ChangeHandled(e)
      /\ getTarget(World, e) \notin {Null, Throw}
      /\ \A k \in 1..Len(toggles) : toggles[k].settings.valid = Null )
    => LET was == Has(last.pre.cls, e, Toggle_activeClass)
           now == Has(cls, e, Toggle_activeClass)
       IN /\ Transitions(log) = (IF last.ev.valid # was THEN 1 ELSE 0)
          /\ now <=> last.ev.valid

C12_Witness ==
  /\ last.ev.type = "change"
  /\ last.ev.target = "inp"
  /\ ChangeHandled("inp")
  /\ ~last.ev.valid
  /\ Has(last.pre.cls, "inp", Toggle_activeClass)
  /\ Has(last.pre.cls, "panel2", Toggle_activeClass)
  /\ Transitions(log) = 1
  /\ cls["inp"] = {}
  /\ cls["panel2"] = {Toggle_inactiveClass}

----------------------------------------------------------------------------
(* Properties of the settings (SpecSkip) *)

\* the Toggle was constructed with the setting name given as false
PassedFalse(name) == name \in args[1].own

\* the last event was a click that made a transition
Transitioned == last.ev.type = "click" /\ Transitions(log) = 1

\* activeClass: false: no element gains or loses the active class
SkipsActiveClass ==
  (Transitioned /\ PassedFalse("activeClass"))
  => \A e \in Nodes :
       Has(cls, e, Toggle_activeClass) = Has(last.pre.cls, e, Toggle_activeClass)

\* inactiveClass: false: no element gains or loses the inactive class
SkipsInactiveClass ==
  (Transitioned /\ PassedFalse("inactiveClass"))
  => \A e \in Nodes :
       Has(cls, e, Toggle_inactiveClass)
         = Has(last.pre.cls, e, Toggle_inactiveClass)

\* focusable: false: the tabindex of every element but the target is as before
SkipsFocusable ==
  (Transitioned /\ PassedFalse("focusable"))
  => \A e \in ElemSet \ {toggles[1].target} :
       attr[e]["tabindex"] = last.pre.attr[e]["tabindex"]

\* jump: false: hash, focus and the tabindex of the target are as before
SkipsJump ==
  (Transitioned /\ PassedFalse("jump"))
  => /\ hash = last.pre.hash
     /\ focus = last.pre.focus
     /\ attr[toggles[1].target]["tabindex"]
          = last.pre.attr[toggles[1].target]["tabindex"]

\* C13 as claimed: each of the four steps is skipped by a Toggle constructed
\* with its setting given as false: activeClass false toggles no active class,
\* inactiveClass false no inactive class, focusable false changes no tabindex
\* of the descendants, jump false changes no hash, focus or target tabindex.
C13_Skippable ==
  /\ SkipsActiveClass
  /\ SkipsInactiveClass
  /\ SkipsFocusable
  /\ SkipsJump

----------------------------------------------------------------------------
(* Icons, src/js/default.js:421-455 *)

Icons_path == "svg/icons.svg"

\* the value of a callback that returns nothing, and what innerHTML makes of it
Undefined == "undefined"

\* loaders constructed in one behaviour of SpecIcons
MaxIcons == 2

\* the paths Default.icons is called with: none, or one of its own
IconPaths == {Null, "sprite.svg"}

\* the markup of the icon file
Markup == "<svg><symbol id='icon'/></svg>"

\* how fetch(path) settles: rejected by a network failure, or fulfilled with a
\* response that is OK and readable, OK with a body that fails while it is
\* read, or not OK
NoResponse == [ok |-> FALSE, readable |-> FALSE, text |-> ""]

FetchOutcomes ==
  {[rejected |-> TRUE, response |-> NoResponse],
   [rejected |-> FALSE,
    response |-> [ok |-> TRUE, readable |-> TRUE, text |-> Markup]],
   [rejected |-> FALSE,
    response |-> [ok |-> TRUE, readable |-> FALSE, text |-> ""]],
   [rejected |-> FALSE,
    response |-> [ok |-> FALSE, readable |-> TRUE, text |-> "Not Found"]]}

\* new Icons(path), lines 427-430 and 450: the path defaulted, the fetch started
Icons_constructor(path) ==
  [path |-> IF path # Null THEN path ELSE Icons_path,
   pc |-> "fetch", rejected |-> FALSE, response |-> NoResponse,
   data |-> Undefined, logged |-> {}, thrown |-> FALSE]

\* lines 431-437, the first then: skipped by a rejected fetch; the text of an
\* OK response, whose reading can reject; a response that is not OK is logged
\* and the callback returns nothing
thenResponse(l) ==
  IF l.rejected THEN [l EXCEPT !.pc = "catch"]
  ELSE IF l.response.ok
  THEN IF l.response.readable
       THEN [l EXCEPT !.pc = "catch", !.data = l.response.text]
       ELSE [l EXCEPT !.pc = "catch", !.rejected = TRUE]
  ELSE [l EXCEPT !.pc = "catch", !.logged = @ \cup {"response"},
                 !.data = Undefined]

\* lines 438-441, the catch: a rejection is logged and becomes a fulfilment
\* with nothing; a fulfilment passes through
catchError(l) ==
  IF l.rejected
  THEN [l EXCEPT !.pc = "then", !.rejected = FALSE,
                 !.logged = @ \cup {"error"}, !.data = Undefined]
  ELSE [l EXCEPT !.pc = "then"]

\* the div of lines 443-446 for the data the last then is called with
Sprite(k, data) ==
  [by |-> k, tagName |-> "DIV", innerHTML |-> data, ariaHidden |-> "true",
   style |-> "display: none;"]

\* lines 442-448, the last then: the div is made and appended to the body
AppendSprite(body, k, data) == Append(body, Sprite(k, data))

\* a script calls new Icons(path)
NewIcons(path) ==
  /\ Len(icons.loads) < MaxIcons
  /\ icons' = [icons EXCEPT !.loads = Append(@, Icons_constructor(path))]
  /\ UNCHANGED <<toggleVars, slug, rot, col, tr>>

\* the fetch of loader k settles
FetchSettles(k, outcome) ==
  /\ icons.loads[k].pc = "fetch"
  /\ icons' = [icons EXCEPT !.loads[k].pc = "response",
                            !.loads[k].rejected = outcome.rejected,
                            !.loads[k].response = outcome.response]
  /\ UNCHANGED <<toggleVars, slug, rot, col, tr>>

\* the reactions of the promise chain of loader k, one microtask each
ThenResponse(k) ==
  /\ icons.loads[k].pc = "response"
  /\ icons' = [icons EXCEPT !.loads[k] = thenResponse(@)]
  /\ UNCHANGED <<toggleVars, slug, rot, col, tr>>

CatchError(k) ==
  /\ icons.loads[k].pc = "catch"
  /\ icons' = [icons EXCEPT !.loads[k] = catchError(@)]
  /\ UNCHANGED <<toggleVars, slug, rot, col, tr>>

ThenData(k) ==
  /\ icons.loads[k].pc = "then"
  /\ icons' =
       IF icons.loads[k].rejected
       THEN [icons EXCEPT !.loads[k].pc = "done", !.loads[k].thrown = TRUE]
       ELSE [icons EXCEPT !.loads[k].pc = "done",
                          !.body = AppendSprite(@, k, icons.loads[k].data)]
  /\ UNCHANGED <<toggleVars, slug, rot, col, tr>>

InitIcons ==
  /\ PageLoaded
  /\ icons = [loads |-> <<>>, body |-> <<>>]
  /\ slug = NotConstructed
  /\ rot = NotConstructed
  /\ col = NotConstructed
  /\ tr = NotConstructed

NextIcons ==
  \/ \E path \in IconPaths : NewIcons(path)
  \/ \E k \in 1..Len(icons.loads), outcome \in FetchOutcomes :
        FetchSettles(k, outcome)
  \/ \E k \in 1..Len(icons.loads) : ThenResponse(k)
  \/ \E k \in 1..Len(icons.loads) : CatchError(k)
  \/ \E k \in 1..Len(icons.loads) : ThenData(k)

SpecIcons == InitIcons /\ [][NextIcons]_vars

\* the containers loader k appended to the body
AppendedBy(k) ==
  {n \in 1..Len(icons.body) : icons.body[n].by = k}

\* the fetch of loader k succeeded with an OK response
FetchedOk(k) == ~icons.loads[k].rejected /\ icons.loads[k].response.ok

\* C14 as claimed: a loader whose chain has run appended one hidden container
\* with the fetched markup if its fetch gave an OK response and nothing
\* otherwise, and no error left the chain.
C14_InjectIffOk ==
  \A k \in 1..Len(icons.loads) :
    icons.loads[k].pc = "done"
    => /\ Cardinality(AppendedBy(k)) = (IF FetchedOk(k) THEN 1 ELSE 0)
       /\ \A n \in AppendedBy(k) :
            /\ icons.body[n].ariaHidden = "true"
            /\ icons.loads[k].response.readable
                 => icons.body[n].innerHTML = icons.loads[k].response.text
       /\ ~icons.loads[k].thrown

----------------------------------------------------------------------------
(* createSlug, src/config/slm.js:75-80.  A string is the sequence of its     *)
(* characters.                                                               *)

\* the longest string SpecSlug starts from
MaxSlugLen == 3

UpperCase ==
  <<"A", "B", "C", "D", "E", "F", "G", "H", "I", "J", "K", "L", "M", "N", "O",
    "P", "Q", "R", "S", "T", "U", "V", "W", "X", "Y", "Z">>

LowerCase ==
  <<"a", "b", "c", "d", "e", "f", "g", "h", "i", "j", "k", "l", "m", "n", "o",
    "p", "q", "r", "s", "t", "u", "v", "w", "x", "y", "z">>

Digits == <<"0", "1", "2", "3", "4", "5", "6", "7", "8", "9">>

Range(seq) == {seq[k] : k \in 1..Len(seq)}

IndexOf(seq, c) == CHOOSE k \in 1..Len(seq) : seq[k] = c

\* the characters besides letters and digits, with their code units
Punctuation ==
  ("\t" :> 9) @@ (" " :> 32) @@ ("!" :> 33) @@ ("-" :> 45) @@ ("." :> 46)
    @@ ("_" :> 95)

Chars ==
  Range(UpperCase) \cup Range(LowerCase) \cup Range(Digits)
    \cup DOMAIN Punctuation

\* the code unit of a character
charCodeAt(c) ==
  IF c \in Range(UpperCase) THEN 64 + IndexOf(UpperCase, c)
  ELSE IF c \in Range(LowerCase) THEN 96 + IndexOf(LowerCase, c)
  ELSE IF c \in Range(Digits) THEN 47 + IndexOf(Digits, c)
  ELSE Punctuation[c]

\* the characters from lo to hi, as a range of a character class has them
CharRange(lo, hi) ==
  {c \in Chars : charCodeAt(lo) <= charCodeAt(c) /\ charCodeAt(c) <= charCodeAt(hi)}

\* s.toLowerCase(), line 77
toLowerCase(s) ==
  [k \in 1..Len(s) |->
     IF s[k] \in Range(UpperCase) THEN LowerCase[IndexOf(UpperCase, s[k])]
     ELSE s[k]]

\* the class of /[^0-9a-zA-Z - _]+/, line 78: the ranges 0-9, a-z and A-Z, the
\* range from the space to the space (' - '), and the underscore
SlugClass ==
  CharRange("0", "9") \cup CharRange("a", "z") \cup CharRange("A", "Z")
    \cup CharRange(" ", " ") \cup {"_"}

\* \s, line 79
WhiteSpace == {"\t", " "}

\* s without its leading run of characters of set
RECURSIVE dropRun(_, _)
dropRun(s, set) ==
  IF s # <<>> /\ Head(s) \in set THEN dropRun(Tail(s), set) ELSE s

\* s.replace(/[set]+/g, by): every maximal run of characters of set replaced
RECURSIVE replace(_, _, _)
replace(s, set, by) ==
  IF s = <<>> THEN <<>>
  ELSE IF Head(s) \in set THEN by \o replace(dropRun(s, set), set, by)
  ELSE <<Head(s)>> \o replace(Tail(s), set, by)

\* createSlug(s), lines 75-80
createSlug(s) ==
  replace(replace(replace(toLowerCase(s), Chars \ SlugClass, <<>>),
                  WhiteSpace, <<"-">>),
          {"-"}, <<"-">>)

\* the characters SpecSlug makes its strings of: letters of both cases, a
\* digit, the space, the tab, the hyphen, the underscore and a punctuation mark
SlugAlphabet == {"A", "b", "7", " ", "\t", "-", "_", "!"}

SlugInputs ==
  UNION {[1..n -> SlugAlphabet] : n \in 0..MaxSlugLen}

\* createSlug is called with the string
Slugify ==
  /\ slug.pc = "string"
  /\ slug' = [slug EXCEPT !.pc = "slug", !.out = createSlug(slug.x)]
  /\ UNCHANGED <<toggleVars, icons, rot, col, tr>>

\* createSlug is called with its own result
SlugifyAgain ==
  /\ slug.pc = "slug"
  /\ slug' = [slug EXCEPT !.pc = "slug of slug", !.again = createSlug(slug.out)]
  /\ UNCHANGED <<toggleVars, icons, rot, col, tr>>

InitSlug ==
  /\ PageLoaded
  /\ \E x \in SlugInputs :
       slug = [pc |-> "string", x |-> x, out |-> <<>>, again |-> <<>>]
  /\ icons = NotConstructed
  /\ rot = NotConstructed
  /\ col = NotConstructed
  /\ tr = NotConstructed

NextSlug == Slugify \/ SlugifyAgain

SpecSlug == InitSlug /\ [][NextSlug]_vars

\* C15 as claimed: createSlug applied to its own result gives that result.
C15_Idempotent ==
  slug.pc = "slug of slug" => slug.again = slug.out

\* the characters the rule of the specification keeps: digits, letters, the
\* hyphen, the underscore and the space
ReferenceClass ==
  Range(Digits) \cup Range(LowerCase) \cup Range(UpperCase) \cup {"-", "_", " "}

ReferenceSlug(s) ==
  replace(replace(replace(toLowerCase(s), Chars \ ReferenceClass, <<>>),
                  WhiteSpace, <<"-">>),
          {"-"}, <<"-">>)

HelpWithAnxiety ==
  <<"H", "e", "l", "p", " ", "W", "i", "t", "h", " ",
    "A", "n", "x", "i", "e", "t", "y">>

help_with_anxiety ==
  <<"h", "e", "l", "p", "-", "w", "i", "t", "h", "-",
    "a", "n", "x", "i", "e", "t", "y">>

\* the example of the specification, which the code satisfies
SlugExample == createSlug(HelpWithAnxiety) = help_with_anxiety

\* C16 as claimed: createSlug gives what the reference rule gives (lowercase,
\* delete what is no digit, letter, hyphen, underscore or space, whitespace
\* runs to one hyphen, hyphen runs to one hyphen), and the example holds.
C16_ReferenceRule ==
  /\ slug.pc # "string" => slug.out = ReferenceSlug(slug.x)
  /\ SlugExample

----------------------------------------------------------------------------
(* Animations, src/js/default.js:716-785.  Time is in milliseconds; a timer  *)
(* is the time it is due at, and the timer due first runs first.             *)

Animations_speed == 1500

\* the delay of the setInterval of rotateTerms, line 765
RotateInterval == 3000

\* the delay of the setTimeout of fadeInOut, line 778
FadeDelay == 2000

\* the elements the selector of the rotator finds, at most
MaxTerms == 3

\* runs of the interval callback in one behaviour of SpecRotate
MaxTicks == 4

\* the innerText of an element of the rotator: a word, a word with white space
\* around it, white space only, nothing
RotatingTexts == {<<"A">>, <<" ", "B", " ">>, <<"C">>, <<" ">>, <<>>}

\* the speed rotateTerms is called with: the one of the constructor, or another
RotateSpeeds == {Animations_speed, RotateInterval}

Reverse(s) == [k \in 1..Len(s) |-> s[Len(s) + 1 - k]]

\* s.trim()
trim(s) == Reverse(dropRun(Reverse(dropRun(s, WhiteSpace)), WhiteSpace))

\* lines 724-732: the texts of the elements that are not blank
collectTerms(texts) == SelectSeq(texts, LAMBDA text : trim(text) # <<>>)

\* fadeInOut(controller), lines 772-779: fadeIn added now, and a timer that
\* will add fadeOut and remove fadeIn
fadeInOut(r) ==
  [r EXCEPT !.classes = @ \cup {"fadeIn"},
            !.timers = @ \cup {[kind |-> "timeout", due |-> r.now + FadeDelay]}]

\* the callback of the timer of fadeInOut, lines 775-778
fadeTimeout(r) ==
  [r EXCEPT !.classes = (@ \cup {"fadeOut"}) \ {"fadeIn"}]

\* the controller written with terms[i].trim(), i counted from 0; reading
\* trim of a term that is not there throws a TypeError
write(r, i) ==
  IF i >= Len(r.terms) THEN [r EXCEPT !.thrown = TRUE]
  ELSE [r EXCEPT !.text = trim(r.terms[i + 1]),
                 !.writes = Append(@, trim(r.terms[i + 1]))]

\* rotateTerms(terms, control, speed), lines 750-766: the first term written,
\* the fade started, the index at 1 and the interval set; nothing after the
\* write if it throws
rotateTerms(terms, speed) ==
  LET r0 == [terms |-> terms, speed |-> speed, i |-> 0, text |-> <<>>,
             classes |-> {}, now |-> 0, timers |-> {}, ticks |-> 0,
             writes |-> <<>>, wrote |-> 0, thrown |-> FALSE]
      r1 == write(r0, 0)
  IN IF r1.thrown THEN r1
     ELSE [fadeInOut(r1) EXCEPT
             !.i = 1,
             !.timers = @ \cup {[kind |-> "interval", due |-> RotateInterval]}]

Faulty_wrapEarly(i, n) == IF i = n - 1 THEN 0 ELSE i

\* lines 758-760
wrap(i, n) == IF i = n THEN 0 ELSE i

\* the callback of the interval, lines 757-765
intervalCallback(r) ==
  LET i == wrap(r.i, Len(r.terms))
      r1 == write([r EXCEPT !.i = i], i)
  IN IF r1.thrown THEN r1
     ELSE [fadeInOut(r1) EXCEPT !.i = i + 1, !.wrote = r.now]

\* no timer is due before t
DueFirst(t) == \A u \in rot.timers : t.due <= u.due

\* the interval timer runs its callback and is due again one interval later
IntervalTick ==
  /\ rot.ticks < MaxTicks
  /\ \E t \in rot.timers :
       /\ t.kind = "interval"
       /\ DueFirst(t)
       /\ rot' = [intervalCallback([rot EXCEPT !.now = t.due]) EXCEPT
                    !.ticks = @ + 1,
                    !.timers = (@ \ {t})
                      \cup {[kind |-> "interval", due |-> t.due + RotateInterval]}]
  /\ UNCHANGED <<toggleVars, icons, slug, col, tr>>

\* a timer of fadeInOut runs its callback
FadeTimeout ==
  /\ \E t \in rot.timers :
       /\ t.kind = "timeout"
       /\ DueFirst(t)
       /\ rot' = [fadeTimeout([rot EXCEPT !.now = t.due]) EXCEPT
                    !.timers = @ \ {t}]
  /\ UNCHANGED <<toggleVars, icons, slug, col, tr>>

\* the lists of texts the rotator's elements can have
RotatingElements ==
  UNION {[1..n -> RotatingTexts] : n \in 0..MaxTerms}

\* new Animations(), lines 717-739, or rotateTerms called with another speed
InitRotate ==
  /\ PageLoaded
  /\ \E texts \in RotatingElements, speed \in RotateSpeeds :
       rot = rotateTerms(collectTerms(texts), speed)
  /\ icons = NotConstructed
  /\ slug = NotConstructed
  /\ col = NotConstructed
  /\ tr = NotConstructed

NextRotate == IntervalTick \/ FadeTimeout

SpecRotate == InitRotate /\ [][NextRotate]_vars

\* C17: with n > 0 terms, the first write is terms[0] and the write of the
\* k-th run of the interval callback is terms[k mod n], each trimmed: the
\* writes go through the terms in order and wrap from the last to the first,
\* none skipped or repeated, the controller shows the last of them, and
\* nothing throws.
C17_RotatesInOrder ==
  Len(rot.terms) > 0
  => /\ ~rot.thrown
     /\ Len(rot.writes) = rot.ticks + 1
     /\ \A k \in 0..rot.ticks :
          rot.writes[k + 1] = trim(rot.terms[(k % Len(rot.terms)) + 1])
     /\ rot.text = rot.writes[Len(rot.writes)]

C17_Witness ==
  /\ rot.terms = <<<<"A">>, <<" ", "B", " ">>, <<"C">>>>
  /\ rot.ticks = 4
  /\ rot.writes = <<<<"A">>, <<"B">>, <<"C">>, <<"A">>, <<"B">>>>
  /\ rot.text = <<"B">>

----------------------------------------------------------------------------
(* StaticColumn, src/js/default.js:628-714.  One element with the class      *)
(* js-static; lengths are in pixels.                                         *)

StaticColumn_selector == "js-static"
StaticColumn_notStickyClass == "is-not-sticky"
StaticColumn_bottomClass == "is-bottom"

\* the parent's top is between -MaxTop and MaxTop
MaxTop == 2

\* window.innerHeight and the parent's clientHeight are between 1 and MaxHeight
MaxHeight == 3

Tops == (0 - MaxTop)..MaxTop

Heights == 1..MaxHeight

Faulty_calcWindowPosAddOnly(c) ==
  LET elemTop == c.top
      isPastBottom == c.innerHeight - c.clientHeight - c.top > 0
  IN [c EXCEPT !.classes =
        @ \cup (IF elemTop > 0 THEN {StaticColumn_notStickyClass} ELSE {})
          \cup (IF isPastBottom THEN {StaticColumn_bottomClass} ELSE {})]

\* StaticColumn.calcWindowPos(stickyContentElem), lines 689-710
calcWindowPos(c) ==
  LET elemTop == c.top
      isPastBottom == c.innerHeight - c.clientHeight - c.top > 0
      sticky == IF elemTop > 0
                THEN c.classes \cup {StaticColumn_notStickyClass}
                ELSE c.classes \ {StaticColumn_notStickyClass}
  IN [c EXCEPT !.classes =
        IF isPastBottom
        THEN sticky \cup {StaticColumn_bottomClass}
        ELSE sticky \ {StaticColumn_bottomClass}]

\* the classes the element has in the markup
MarkupClasses ==
  {{StaticColumn_selector} \cup S :
     S \in SUBSET {StaticColumn_notStickyClass, StaticColumn_bottomClass}}

\* the window scrolls: the parent's top changes and the scroll listener of
\* lines 659-665 runs
Scroll(top) ==
  /\ top # col.top
  /\ col' = calcWindowPos([col EXCEPT !.top = top, !.was = col.classes,
                                      !.ran = "scroll"])
  /\ UNCHANGED <<toggleVars, icons, slug, rot, tr>>

\* the window is resized: its height and the parent's height change and the
\* resize listener of lines 672-678 runs
Resize(innerHeight, clientHeight) ==
  /\ <<innerHeight, clientHeight>> # <<col.innerHeight, col.clientHeight>>
  /\ col' = calcWindowPos([col EXCEPT !.innerHeight = innerHeight,
                                      !.clientHeight = clientHeight,
                                      !.was = col.classes, !.ran = "resize"])
  /\ UNCHANGED <<toggleVars, icons, slug, rot, tr>>

\* new StaticColumn(), lines 629-642 and 650-653: the first run
InitColumn ==
  /\ PageLoaded
  /\ \E classes \in MarkupClasses, top \in Tops, innerHeight \in Heights,
        clientHeight \in Heights :
       col = calcWindowPos([classes |-> classes, top |-> top,
                            innerHeight |-> innerHeight,
                            clientHeight |-> clientHeight,
                            was |-> classes, ran |-> "constructor"])
  /\ icons = NotConstructed
  /\ slug = NotConstructed
  /\ rot = NotConstructed
  /\ tr = NotConstructed

NextColumn ==
  \/ \E top \in Tops : Scroll(top)
  \/ \E innerHeight \in Heights, clientHeight \in Heights :
       Resize(innerHeight, clientHeight)

SpecColumn == InitColumn /\ [][NextColumn]_vars

\* C18: after every run of calcWindowPos (construction, scroll, resize) the
\* element has notStickyClass exactly when the parent's top is > 0 and
\* bottomClass exactly when innerHeight - clientHeight - top is > 0, whatever
\* classes it had before the run.
C18_Recomputed ==
  /\ StaticColumn_notStickyClass \in col.classes <=> col.top > 0
  /\ StaticColumn_bottomClass \in col.classes
       <=> col.innerHeight - col.clientHeight - col.top > 0

C18_Witness ==
  /\ col.ran = "scroll"
  /\ col.was = {StaticColumn_selector, StaticColumn_bottomClass}
  /\ col.classes = {StaticColumn_selector, StaticColumn_notStickyClass}
  /\ col.top > 0
  /\ col.innerHeight - col.clientHeight - col.top <= 0

----------------------------------------------------------------------------
(* TranslateElement, src/js/default.js:464-618.  The observer watches the    *)
(* attributes of the root element; a mutation record is the name of the      *)
(* attribute that was set, and the records queued since the last delivery    *)
(* reach the callback together.                                              *)

TranslateElement_rtl == <<"ar", "ur">>
TranslateElement_restore == <<"auto", "en">>
TranslateElement_maps == [zh_hant |-> "zh-CN"]

\* window.STYLESHEETS
TranslateElement_stylesheets ==
  <<"style-default.css", "style-ar.css", "style-zh-hant.css">>

\* records waiting for delivery, at most
MaxBatch == 2

\* anchors in the document, at most
MaxAnchors == 2

\* the values the translation widget gives the root's lang attribute
Langs == {"auto", "en", "ar", "ur", "es", "zh-CN"}

\* s.includes(part) for the stylesheets above and a part 'style-' + language:
\* the part is followed by the extension
includes(s, part) == s = part \o ".css"

\* TranslateElement.prototype.click, lines 503-525, as a listener
TranslateElement_click == "TranslateElement.click"

Faulty_addEventListenerAgain(listeners, f) == Append(listeners, f)

\* link.addEventListener('click', f): a listener already in the list is not
\* added again
addEventListener(listeners, f) ==
  IF f \in Range(listeners) THEN listeners ELSE Append(listeners, f)

\* link.removeEventListener('click', f)
removeEventListener(listeners, f) ==
  SelectSeq(listeners, LAMBDA g : g # f)

Faulty_directionOfArabic(lang) == IF lang = "ar" THEN "rtl" ELSE "ltr"

\* lines 548-549
directionOf(lang) ==
  IF lang \in Range(TranslateElement_rtl) THEN "rtl" ELSE "ltr"

\* lines 552-557: the stylesheet of the language if there is one, else the
\* default one
switchedStylesheet(lang) ==
  LET slang == IF lang = TranslateElement_maps.zh_hant THEN "zh-hant" ELSE lang
      stylesheet == SelectSeq(TranslateElement_stylesheets,
                              LAMBDA s : includes(s, "style-" \o slang))
      latin == SelectSeq(TranslateElement_stylesheets,
                         LAMBDA s : includes(s, "style-default"))
  IN IF stylesheet # <<>> THEN stylesheet[1] ELSE latin[1]

Faulty_observerAnyMutation(e, mutations) ==
  LET lang == e.lang
  IN [e EXCEPT
        !.control = IF lang \in Range(TranslateElement_restore)
                    THEN "restore" ELSE lang,
        !.direction = directionOf(lang),
        !.queue = Append(@, "direction"),
        !.stylesheet = switchedStylesheet(lang),
        !.handlers =
          [a \in DOMAIN @ |->
             IF a \notin e.anchors THEN @[a]
             ELSE IF lang \in Range(TranslateElement_restore)
             THEN removeEventListener(@[a], TranslateElement_click)
             ELSE addEventListener(@[a], TranslateElement_click)],
        !.ran = "update"]

\* observer(mutations), lines 536-571; setting direction on the root queues a
\* record of its own
observer(e, mutations) ==
  LET langs == SelectSeq(mutations, LAMBDA m : m = "lang")
      lang == e.lang
  IN IF langs # <<>>
     THEN [e EXCEPT
             !.control = IF lang \in Range(TranslateElement_restore)
                         THEN "restore" ELSE lang,
             !.direction = directionOf(lang),
             !.queue = Append(@, "direction"),
             !.stylesheet = switchedStylesheet(lang),
             !.handlers =
               [a \in DOMAIN @ |->
                  IF a \notin e.anchors THEN @[a]
                  ELSE IF lang \in Range(TranslateElement_restore)
                  THEN removeEventListener(@[a], TranslateElement_click)
                  ELSE addEventListener(@[a], TranslateElement_click)],
             !.ran = "update"]
     ELSE [e EXCEPT !.ran = "ignore"]

\* the widget sets the root's lang attribute
SetLang(lang) ==
  /\ Len(tr.queue) < MaxBatch
  /\ tr' = [tr EXCEPT !.lang = lang, !.queue = Append(@, "lang"),
                      !.ran = "lang"]
  /\ UNCHANGED <<toggleVars, icons, slug, rot, col>>

\* a script sets another attribute of the root
SetClass ==
  /\ Len(tr.queue) < MaxBatch
  /\ tr' = [tr EXCEPT !.queue = Append(@, "class"), !.ran = "class"]
  /\ UNCHANGED <<toggleVars, icons, slug, rot, col>>

\* an anchor is added to the document
AddAnchor(a) ==
  /\ a \notin tr.anchors
  /\ tr' = [tr EXCEPT !.anchors = @ \cup {a}, !.ran = "anchor"]
  /\ UNCHANGED <<toggleVars, icons, slug, rot, col>>

\* the queued records are delivered, lines 482-484
Deliver ==
  /\ tr.queue # <<>>
  /\ tr' = observer([tr EXCEPT !.queue = <<>>,
                               !.batch = tr.queue,
                               !.was = [control |-> tr.control,
                                        direction |-> tr.direction,
                                        handlers |-> tr.handlers]],
                    tr.queue)
  /\ UNCHANGED <<toggleVars, icons, slug, rot, col>>

\* new TranslateElement(element), lines 472-496, on a page in English with one
\* anchor
InitTranslate ==
  /\ PageLoaded
  /\ tr = [lang |-> "en", direction |-> Null, control |-> "restore",
           stylesheet |-> "style-default.css", queue |-> <<>>,
           anchors |-> {1}, handlers |-> [a \in 1..MaxAnchors |-> <<>>],
           ran |-> "constructor", batch |-> <<>>,
           was |-> [control |-> "restore", direction |-> Null,
                    handlers |-> [a \in 1..MaxAnchors |-> <<>>]]]
  /\ icons = NotConstructed
  /\ slug = NotConstructed
  /\ rot = NotConstructed
  /\ col = NotConstructed

NextTranslate ==
  \/ \E lang \in Langs : SetLang(lang)
  \/ SetClass
  \/ \E a \in 1..MaxAnchors : AddAnchor(a)
  \/ Deliver

SpecTranslate == InitTranslate /\ [][NextTranslate]_vars

\* a change of lang waits for delivery
LangPending == "lang" \in Range(tr.queue)

\* the observer has handled a change of lang
LangObserved == tr.direction # Null

\* C19: once the observer has handled the changes of lang made so far, the
\* root's direction is "rtl" if its lang is ar or ur and "ltr" for any other
\* value, after any sequence of changes and whether one or several records
\* were delivered together.
C19_Direction ==
  /\ tr.ran = "update" => ~LangPending
  /\ (LangObserved /\ ~LangPending)
     => tr.direction = (IF tr.lang \in {"ar", "ur"} THEN "rtl" ELSE "ltr")

C19_Witness ==
  /\ tr.ran = "update"
  /\ tr.batch = <<"lang", "lang">>
  /\ tr.lang = "ur"
  /\ tr.was.direction = "ltr"
  /\ tr.direction = "rtl"

\* C20: right after the observer handled a change of lang, every anchor of the
\* document has the click handler exactly when the language is neither auto
\* nor en; no anchor ever has the handler twice.
C20_LinkHandlers ==
  /\ \A a \in 1..MaxAnchors :
       Cardinality({k \in 1..Len(tr.handlers[a]) :
                      tr.handlers[a][k] = TranslateElement_click}) <= 1
  /\ tr.ran = "update"
     => \A a \in tr.anchors :
          TranslateElement_click \in Range(tr.handlers[a])
            <=> tr.lang \notin {"auto", "en"}

C20_Witness ==
  /\ tr.ran = "update"
  /\ tr.anchors = {1, 2}
  /\ tr.was.control = "es"
  /\ tr.lang = "ar"
  /\ tr.was.handlers = (1 :> <<TranslateElement_click>>) @@ (2 :> <<>>)
  /\ tr.handlers[1] = <<TranslateElement_click>>
  /\ tr.handlers[2] = <<TranslateElement_click>>

----------------------------------------------------------------------------
(* Properties of the order of the steps (Spec) *)

\* C21: in a transition whose guard passed or is absent, the steps logged are
\* exactly the ones the settings and the trigger call for, each once, in the
\* order before hook, active class, inactive class, target ARIA, focusable
\* tabindex, jump, trigger ARIA, after hook: the before hook precedes every
\* change and the after hook follows them all.
C21_HookOrder ==
  \A e \in Clickable :
    (ClickedOn(e) /\ Transitions(log) = 1)
    => LET s == toggles[1].settings
           order == <<"before", "activeClass", "inactiveClass", "targetAria",
                      "focusable", "jump", "elAria", "after">>
           due(x) == CASE x = "before" -> s.before # Null
                       [] x = "activeClass" -> s.activeClass # Null
                       [] x = "inactiveClass" -> s.inactiveClass # Null
                       [] x = "focusable" -> s.focusable
                       [] x = "jump" -> s.jump /\ Page[e].href # Null
                       [] x = "after" -> s.after # Null
                       [] OTHER -> TRUE
       IN SelectSeq(log, LAMBDA x : x \in Range(order))
            = SelectSeq(order, due)

C21_Witness ==
  /\ ClickedOn("a1")
  /\ ~Plain
  /\ PageState # PageBefore
  /\ log = <<"preventDefault", "elementToggle", "valid", "before",
             "activeClass", "inactiveClass", "targetAria", "focusable",
             "jump", "elAria", "after">>

----------------------------------------------------------------------------
(* Properties of the focusable descendants and of the jump (SpecFocus) *)

\* the focusable descendants of the panel
PanelChildren == {e \in ElemSet : Descends(e, "panel")}

\* this step is a click that made one transition of the panel, hiding it
Hides ==
  /\ last'.ev.type = "click" /\ Transitions(log') = 1
  /\ Has(cls, "panel", Toggle_activeClass)
  /\ ~Has(cls', "panel", Toggle_activeClass)

\* this step is a click that made one transition of the panel, revealing it
Reveals ==
  /\ last'.ev.type = "click" /\ Transitions(log') = 1
  /\ ~Has(cls, "panel", Toggle_activeClass)
  /\ Has(cls', "panel", Toggle_activeClass)

\* the step before this one hid the panel
WasHidden ==
  /\ last.ev.type = "click" /\ Transitions(log) = 1
  /\ Has(last.pre.cls, "panel", Toggle_activeClass)
  /\ ~Has(cls, "panel", Toggle_activeClass)

\* C22: with focusable enabled, a transition that hides the panel leaves each
\* focusable descendant at tabindex -1, and the reveal that follows the hide
\* gives each descendant the data-toggle-tabindex value where it has one and
\* otherwise the tabindex attribute it had before the hide, whatever that was.
C22_RestoresTabindex ==
  [][\A d \in PanelChildren :
       /\ Hides => attr'[d]["tabindex"] = "-1"
       /\ (WasHidden /\ Reveals)
          => attr'[d]["tabindex"] =
               (IF Truthy(Page[d].tabdefault) THEN Page[d].tabdefault
                ELSE last.pre.attr[d]["tabindex"])]_vars

----------------------------------------------------------------------------
(* Properties of the triggers' ARIA attributes (SpecUndo) *)

\* C23: a transition flips aria-pressed and aria-expanded on the clicked
\* trigger and on every other trigger getOthers selects for it that carries
\* the attribute, and such an other trigger ends with the same value as the
\* clicked trigger where that one carries the attribute too.
C23_TriggersFlipTogether ==
  \A e \in ElemSet :
    (ClickedOn(e) /\ Transitions(log) = 1)
    => \A a \in Range(Toggle_elAriaRoles) :
         /\ Truthy(last.pre.attr[e][a])
            => attr[e][a] = FlipOf(last.pre.attr[e][a])
         /\ \A x \in OthersOf(e) \ {e} :
              Truthy(last.pre.attr[x][a])
              => /\ attr[x][a] = FlipOf(last.pre.attr[x][a])
                 /\ Truthy(attr[e][a]) => attr[x][a] = attr[e][a]

\* this step is a click on a trigger with an href that made one transition
Jumps(e) ==
  /\ last'.ev.type = "click" /\ last'.ev.target = e
  /\ Transitions(log') = 1
  /\ Page[e].href # Null

\* C24 as stated: after a transition from a trigger with an href, an active
\* target has the focus and a tabindex and the fragment is the href, an
\* inactive one leaves the URL without fragment and the focus where it was; a
\* tabindex is assigned only to a target that lacks one, and a target that had
\* one before it was activated has the same one after it is deactivated.
C24_Original ==
  [][\A e \in ElemSet :
       Jumps(e)
       => LET t == getTarget(World, e)
          IN /\ Has(cls', t, Toggle_activeClass)
                => /\ hash' = Page[e].href
                   /\ attr'[t]["tabindex"] # Null
                   /\ focus' = t
                   /\ attr[t]["tabindex"] # Null
                      => attr'[t]["tabindex"] = attr[t]["tabindex"]
             /\ ~Has(cls', t, Toggle_activeClass)
                => /\ hash' = ""
                   /\ focus' = focus
                   /\ (/\ last.ev.type = "click" /\ Transitions(log) = 1
                       /\ last.pre.attr[t]["tabindex"] # Null)
                      => attr'[t]["tabindex"] = last.pre.attr[t]["tabindex"]]_vars

\* C24: after a transition from a trigger with an href, an active target has
\* the focus and tabindex "0" and the fragment is the href; an inactive target
\* has no tabindex attribute, the URL has no fragment and the focus is where
\* it was.  The tabindex the target had before is overwritten or removed.
C24_Jump ==
  \A e \in ElemSet :
    (ClickedOn(e) /\ Transitions(log) = 1 /\ Page[e].href # Null)
    => LET t == getTarget(World, e)
       IN IF Has(cls, t, Toggle_activeClass)
          THEN /\ hash = Page[e].href
               /\ attr[t]["tabindex"] = "0"
               /\ focus = t
          ELSE /\ hash = ""
               /\ attr[t]["tabindex"] = Null
               /\ focus = last.pre.focus

C24_Witness ==
  /\ ClickedOn("a1")
  /\ Transitions(log) = 1
  /\ last.pre.attr["panel"]["tabindex"] = "3"
  /\ last.pre.focus = "body"
  /\ Has(cls, "panel", Toggle_activeClass)
  /\ attr["panel"]["tabindex"] = "0"
  /\ focus = "panel"
  /\ hash = "#panel"

----------------------------------------------------------------------------
(* Properties of the rotation's timing (SpecRotate) *)

\* C25: each write of the interval callback comes exactly `speed` time units
\* after the write before it, for the speed rotateTerms was called with.
C25_SpeedInterval ==
  [][(rot'.ticks = rot.ticks + 1 /\ ~rot'.thrown)
     => rot'.wrote - rot.wrote = rot.speed]_vars

----------------------------------------------------------------------------
(* Properties of the inactive class (Spec) *)

\* C26: a transition toggles the inactive class on the target and on nothing
\* else: the clicked trigger, the other triggers and every other element have
\* the class after the click exactly if they had it before.
C26_InactiveOnTargetOnly ==
  \A e \in ElemSet :
    (ClickedOn(e) /\ Transitions(log) = 1)
    => LET t == getTarget(World, e)
           c == toggles[1].settings.inactiveClass
       IN /\ Has(cls, t, c) = ~Has(last.pre.cls, t, c)
          /\ \A x \in Nodes \ {t} : Has(cls, x, c) = Has(last.pre.cls, x, c)

C26_Witness ==
  /\ ClickedOn("a1")
  /\ Transitions(log) = 1
  /\ OthersOf("a1") = {"a1", "a2"}
  /\ Has(last.pre.cls, "panel", Toggle_inactiveClass)
  /\ ~Has(cls, "panel", Toggle_inactiveClass)
  /\ Has(cls, "a1", Toggle_activeClass)
  /\ ~Has(cls, "a1", Toggle_inactiveClass)
  /\ ~Has(cls, "a2", Toggle_inactiveClass)

----------------------------------------------------------------------------
(* Properties of the delegated listener's tag sets (SpecTags) *)

\* the tags the delegated listener of the event type handles
TagsOf(type) ==
  IF type = "click" THEN {"A", "BUTTON"} ELSE {"SELECT", "INPUT", "TEXTAREA"}

\* the last event was of the type, on e
Dispatched(type, e) == last.ev.type = type /\ last.ev.target = e

\* C27: a delegated click or change on an element the selector does not match,
\* or whose tag is not in the set of the event's type (A, BUTTON for click;
\* SELECT, INPUT, TEXTAREA for change), changes no class, attribute, hash,
\* focus or listener and calls nothing: not preventDefault, not the guard, not
\* a hook; a transition happens only within the tag set.
C27_TagSets ==
  \A e \in ElemSet, type \in {"click", "change"} :
    Dispatched(type, e)
    => /\ (\/ toggles[1].settings.selector \notin Page[e].matches
           \/ Page[e].tagName \notin TagsOf(type))
          => /\ log = <<>>
             /\ PageState = PageBefore
             /\ elemL = last.pre.elemL
             /\ bodyL = last.pre.bodyL
             /\ ~err
       /\ Transitions(log) > 0
          => /\ toggles[1].settings.selector \in Page[e].matches
             /\ Page[e].tagName \in TagsOf(type)

C27_Witness ==
  /\ Dispatched("click", "inp")
  /\ Toggle_selector \in Page["inp"].matches
  /\ ~Plain
  /\ Has(cls, "panel", Toggle_activeClass)
  /\ Has(cls, "panel2", Toggle_inactiveClass)
  /\ log = <<>>
  /\ PageState = PageBefore

----------------------------------------------------------------------------
(* Properties of a trigger whose href is no selector (Spec) *)

\* C28: a click on a matched anchor whose href is not a fragment selector and
\* that has no aria-controls is a silent no-target case: nothing is thrown, no
\* transition is made, and no class, attribute, hash or focus changes.
C28_PathHrefSilent ==
  \A e \in ElemSet :
    (/\ ClickedOn(e)
     /\ Page[e].href # Null /\ ~IsFragment(Page[e].href)
     /\ Page[e].controls = Null)
    => /\ ~err
       /\ Transitions(log) = 0
       /\ PageState = PageBefore

----------------------------------------------------------------------------
(* Properties of the triggers of one target (SpecTags) *)

\* the matched elements getTarget resolves to t, by href or by aria-controls
TriggersOf(t) ==
  {e \in ElemSet :
     Toggle_selector \in Page[e].matches /\ getTarget(World, e) = t}

\* C29: from the closed page, where the triggers of a target and the target
\* are all inactive, after any sequence of clicks and changes every trigger
\* that resolves to a target has the active class exactly if the target has
\* it, whether it names the target by href or by aria-controls.
C29_TriggersFollowTarget ==
  \A t \in {"panel", "panel2"} :
    \A e \in TriggersOf(t) :
      Has(cls, e, Toggle_activeClass) = Has(cls, t, Toggle_activeClass)

----------------------------------------------------------------------------
(* Properties of the target's state (SpecUndo) *)

\* C30: from a page where each target is consistently closed or open, after
\* any sequence of transitions by the one Toggle, undone ones included, each
\* target has the active class if and only if it lacks the inactive class,
\* and if and only if its aria-hidden is "false" (otherwise it is "true").
C30_TargetConsistent ==
  \A t \in {"panel", "panel2"} :
    /\ Has(cls, t, Toggle_activeClass) = ~Has(cls, t, Toggle_inactiveClass)
    /\ Has(cls, t, Toggle_activeClass) = (attr[t]["aria-hidden"] = "false")
    /\ attr[t]["aria-hidden"] \in {"true", "false"}

C30_Witness ==
  /\ ClickedOn("undo")
  /\ Transitions(log) = 1
  /\ last.pre.cls["panel"] = OpenCls
  /\ last.pre.attr["panel"]["aria-hidden"] = "false"
  /\ cls["panel"] = {Toggle_inactiveClass}
  /\ attr["panel"]["aria-hidden"] = "true"
  /\ last.pre.cls["tu"] = {Toggle_activeClass}

----------------------------------------------------------------------------
(* Properties of the pending undo listeners (SpecUndo) *)

\* the calls of elementToggle during the last event
Invocations == Cardinality({k \in 1..Len(log) : log[k] = "elementToggle"})

\* C31: the undo element never has more than one undo listener, and a click
\* on it while a listener is there calls elementToggle exactly once and, the
\* guard passing, leaves the target's active class the opposite of what it
\* was before the click.
C31_OneUndoPending ==
  /\ Len(elemL["undo"]) <= 1
  /\ (ClickedOn("undo") /\ Len(last.pre.elemL["undo"]) > 0)
     => /\ Invocations = 1
        /\ last.ev.ok
           => Has(cls, "panel", Toggle_activeClass)
                = ~Has(last.pre.cls, "panel", Toggle_activeClass)

----------------------------------------------------------------------------
(* Properties of tab-reachability under undo (SpecUndoFocus) *)

\* C32: after any sequence of clicks on the triggers and on the undo element,
\* the panel is inactive if and only if all of its focusable descendants have
\* tabindex -1.
C32_ReachabilityFollowsVisibility ==
  ~Has(cls, "panel", Toggle_activeClass)
    <=> \A d \in PanelChildren : attr[d]["tabindex"] = "-1"

----------------------------------------------------------------------------
(* Properties of the undo listener under a declining guard (SpecUndo) *)

\* C33: a click on the trigger that names an undo element, declined by the
\* guard, makes no transition and adds no listener to the undo element.
C33_DeclinedAddsNoUndo ==
  (ClickedOn("tu") /\ toggles[1].settings.valid # Null /\ ~last.ev.ok)
  => /\ Transitions(log) = 0
     /\ elemL["undo"] = last.pre.elemL["undo"]

----------------------------------------------------------------------------
(* Properties of instances that share a selector (SpecShared) *)

\* the step is in the log of the last event
Logged(step) == step \in Range(log)

\* C34: with any number of delegated instances constructed for the same
\* selector, a click on a matching trigger is handled once, with the settings
\* of the first of them: its guard and hooks are the ones called, its active
\* class is the one toggled, its focusable and jump decide those steps; the
\* active class of a later instance is left as it was.
C34_FirstInstanceOnly ==
  \A e \in SharedClickable :
    (ClickedOn(e) /\ Len(toggles) > 0)
    => LET first == toggles[1].settings
       IN /\ Invocations = 1
          /\ Logged("valid") <=> first.valid # Null
          /\ Transitions(log) = 1
             => /\ Logged("before") <=> first.before # Null
                /\ Logged("after") <=> first.after # Null
                /\ Logged("focusable") <=> first.focusable
                /\ Logged("jump") <=> (first.jump /\ Page[e].href # Null)
                /\ Has(cls, "panel", first.activeClass)
                     = ~Has(last.pre.cls, "panel", first.activeClass)
                /\ \A k \in 2..Len(toggles) :
                     toggles[k].settings.activeClass # first.activeClass
                     => Has(cls, "panel", toggles[k].settings.activeClass)
                          = Has(last.pre.cls, "panel",
                                toggles[k].settings.activeClass)

C34_Witness ==
  /\ ClickedOn("a1")
  /\ Len(toggles) = 2
  /\ toggles[1].settings.activeClass = "is-open"
  /\ toggles[2].settings.valid = "valid"
  /\ log = <<"preventDefault", "elementToggle", "activeClass",
             "inactiveClass", "targetAria", "elAria">>
  /\ Has(cls, "panel", "is-open")
  /\ ~Has(cls, "panel", Toggle_activeClass)

----------------------------------------------------------------------------
(* Properties of the observer's own writes (SpecTranslate) *)

\* this step delivers the queued records to the observer
Delivers == tr' # tr /\ tr'.ran \in {"update", "ignore"}

\* C35: a delivery with a change of lang in it makes one round of updates and
\* queues one record, that of the direction the observer set; a delivery
\* without a change of lang, the observer's own record included, changes no
\* control, direction, stylesheet or link handler and queues nothing, so the
\* observer is at rest after it.
C35_Quiescence ==
  [][Delivers
     => IF "lang" \in Range(tr.queue)
        THEN /\ tr'.ran = "update"
             /\ tr'.queue = <<"direction">>
        ELSE /\ tr'.ran = "ignore"
             /\ tr'.queue = <<>>
             /\ tr'.control = tr.control
             /\ tr'.direction = tr.direction
             /\ tr'.stylesheet = tr.stylesheet
             /\ tr'.handlers = tr.handlers]_vars

C35_Witness ==
  /\ tr.ran = "ignore"
  /\ tr.batch = <<"direction">>
  /\ tr.queue = <<>>
  /\ tr.lang = "ar"
  /\ tr.control = "ar"
  /\ tr.direction = "rtl"
  /\ tr.was.direction = "rtl"
  /\ tr.stylesheet = "style-ar.css"

----------------------------------------------------------------------------
(* Properties of the rotator's indices (SpecRotate) *)

\* C36: for every number of terms collected, none included, nothing throws:
\* the write of the construction and each write of the interval callback
\* reads a term that is in the list.
C36_InBounds ==
  /\ ~rot.thrown
  /\ Len(rot.writes) = rot.ticks + 1
  /\ rot.i \in 1..Len(rot.terms)

----------------------------------------------------------------------------
(* Properties of the fade classes (SpecRotate) *)

\* C37: whatever the order the timers of the rotation and of the fade run in,
\* the controller never has the classes fadeIn and fadeOut together.
C37_FadeExclusive ==
  ~({"fadeIn", "fadeOut"} \subseteq rot.classes)

====
